---- MODULE Spec2Model ----
(***************************************************************************)
(* A model of tmserver's document pipeline: extract_json, build_crew,      *)
(* the crew's sequential kickoff, run_tailor_pipeline,                     *)
(* run_workshop_pipeline and the section ordering of resume_to_pdf.        *)
(*                                                                         *)
(* Texts are sequences of one-character strings.  A JSON object body is    *)
(* one opaque character (a string naming the object), decoded by a table.  *)
(***************************************************************************)
EXTENDS Integers, Sequences, FiniteSets, TLC

VARIABLES
    ex_text,     \* extract_json: the argument text
    ex_ntok,     \* the number of tokens text was made of
    ex_out,      \* extract_json: the returned string
    ex_done,     \* extract_json has returned
    sections,          \* resume_to_pdf: resume["sections"]
    ordered_sections,  \* resume_to_pdf: the list the render loop walks
    story,             \* resume_to_pdf: the flowables appended for the sections
    rd_done,           \* resume_to_pdf has built the story
    pc,          \* where the pipeline call stands
    entry,       \* the entry point that was called
    args,        \* its arguments and the environment it reads
    tmpdir,      \* the TemporaryDirectory: whether it exists, and its files
    written,     \* the names of the files ever written into it
    tools,       \* build_tools: the names of the tools built
    order,       \* build_crew: the task names to run, in order
    catalogue,   \* build_crew: the task names of tasks.yaml
    crew,        \* build_crew: the selected tasks of the Crew
    next,        \* kickoff: the index of the next task to start
    status,      \* kickoff: per selected task, pending/running/done/failed
    futures,     \* kickoff: the indices of the async tasks not yet joined
    task_out,    \* per task name, the output of its Task object
    seen,        \* per selected task, the context outputs it was started with
    startlog,    \* the task names in the order they were started
    raw,         \* the result of crew.kickoff
    clean_json,  \* extract_json(raw_str)
    parsed,      \* the validated object
    render_calls,\* the number of calls of resume_to_pdf
    result,      \* what the entry point returned
    error,       \* the exception the entry point raised
    inv_pc,      \* per concurrent invocation: where its call stands
    inv_dir,     \* per invocation: the name of its TemporaryDirectory (0: none)
    inv_tools,   \* per invocation: the paths its tools are bound to
    inv_crew,    \* per invocation: the Task objects of its crew
    inv_result,  \* per invocation: whose crew made the result it holds (0: none)
    tmp_dirs,    \* the directories that exist under the temporary root
    tmp_files,   \* the files in them: directory, name, the invocation that wrote it
    cwd_files,   \* the files written through output_file: name, last writer
    objects,     \* the number of Task objects created so far
    output_file, \* whether the last task of tasks.yaml declares output_file
    reads,       \* the file reads of the tools: reader, writer of what was read
    overwritten, \* the overwrites of a file: its writer, who overwrote it
    api_now,     \* the server's clock
    users,       \* db.users_set: the user records
    cookie,      \* the client's cookie jar: its access_token
    session,     \* the login that set the cookie: Google account and token
    resp,        \* the last response, with the request it answers
    tailored_resumes, \* the documents of the tailored-resume collection
    logins,      \* the POST /auth/google requests in progress, each its state
    unique_index, \* whether users_set has the unique index on google_sub
    bd_pc,       \* build_crew on a configuration: idle, loaded, built, raised
    agents_cfg,  \* agents.yaml: the agents and the tool names each declares
    tasks_cfg,   \* tasks.yaml: the tasks, their agent and context names
    tool_instances, \* the names of the tools handed to build_crew
    agents,      \* the tools bound to each Agent
    all_tasks    \* the context wired to each Task

exvars == <<ex_text, ex_ntok, ex_out, ex_done>>
rdvars == <<sections, ordered_sections, story, rd_done>>
wsvars == <<tmpdir, written, tools>>
bcvars == <<order, catalogue, crew>>
kovars == <<next, status, futures, task_out, seen, startlog, raw>>
outvars == <<clean_json, parsed, render_calls, result, error>>
plvars == <<pc, entry, args, wsvars, bcvars, kovars, outvars>>
ccvars == <<inv_pc, inv_dir, inv_tools, inv_crew, inv_result, tmp_dirs, tmp_files,
            cwd_files, objects, output_file, reads, overwritten>>
apivars == <<api_now, users, cookie, session, resp, tailored_resumes>>
lgvars == <<logins, unique_index>>
bdvars == <<bd_pc, agents_cfg, tasks_cfg, tool_instances, agents, all_tasks>>
vars == <<exvars, rdvars, plvars, ccvars, apivars, bdvars, lgvars>>

(***************************************************************************)
(* Bounds                                                                  *)
(***************************************************************************)
MaxTokens == 5
MaxSections == 3
MaxOrder == 3
MaxCtxRefs == 1
MaxInvocations == 2

(***************************************************************************)
(* Strings (run_tailor.py:112-127 uses strip, startswith, endswith, split) *)
(***************************************************************************)
WS == " "
\* The backquote character (written "bq": a TLA+ string cannot hold one).
BQ == "bq"
\* The triple-backquote fence marker.
FENCE == <<BQ, BQ, BQ>>
JSONTAG == <<"j", "s", "o", "n">>

\* str.startswith(prefix)
StartsWith(s, prefix) ==
    /\ Len(s) >= Len(prefix)
    /\ SubSeq(s, 1, Len(prefix)) = prefix

\* str.endswith(suffix)
EndsWith(s, suffix) ==
    /\ Len(s) >= Len(suffix)
    /\ SubSeq(s, Len(s) - Len(suffix) + 1, Len(s)) = suffix

RECURSIVE LStrip(_)
LStrip(s) ==
    IF s # <<>> /\ Head(s) = WS THEN LStrip(Tail(s)) ELSE s

RECURSIVE RStrip(_)
RStrip(s) ==
    IF s # <<>> /\ s[Len(s)] = WS THEN RStrip(SubSeq(s, 1, Len(s) - 1)) ELSE s

\* str.strip(): leading and trailing whitespace removed
Strip(s) == RStrip(LStrip(s))

\* str.split(sep): left to right, non-overlapping; cur is the part being read
RECURSIVE SplitFrom(_, _, _)
SplitFrom(s, sep, cur) ==
    IF s = <<>> THEN <<cur>>
    ELSE IF StartsWith(s, sep)
         THEN <<cur>> \o SplitFrom(SubSeq(s, Len(sep) + 1, Len(s)), sep, <<>>)
         ELSE SplitFrom(Tail(s), sep, Append(cur, Head(s)))

Split(s, sep) == SplitFrom(s, sep, <<>>)

\* p.startswith("{") and p.endswith("}")
IsBraced(p) == StartsWith(p, <<"{">>) /\ EndsWith(p, <<"}">>)

\* p[len("json"):].strip()
AfterTag(p) == Strip(SubSeq(p, Len(JSONTAG) + 1, Len(p)))

(***************************************************************************)
(* extract_json (run_tailor.py:90-130)                                     *)
(***************************************************************************)
NoPart == [found |-> FALSE, val |-> <<>>]

\* The mutant returns the chunk with its "json" tag still on it.
RECURSIVE ScanPartsKeepTag(_, _)
ScanPartsKeepTag(parts, i) ==
    IF i > Len(parts) THEN NoPart
    ELSE LET p == Strip(parts[i]) IN
         IF IsBraced(p) THEN [found |-> TRUE, val |-> p]
         ELSE IF StartsWith(p, JSONTAG) /\ IsBraced(AfterTag(p))
              THEN [found |-> TRUE, val |-> p]
              ELSE ScanPartsKeepTag(parts, i + 1)

\* for p in parts: ... return p / return json_part (lines 118-127)
RECURSIVE ScanParts(_, _)
ScanParts(parts, i) ==
    IF i > Len(parts) THEN NoPart
    ELSE LET p == Strip(parts[i]) IN
         IF IsBraced(p) THEN [found |-> TRUE, val |-> p]
         ELSE IF StartsWith(p, JSONTAG)
              THEN LET json_part == AfterTag(p) IN
                   IF IsBraced(json_part)
                   THEN [found |-> TRUE, val |-> json_part]
                   ELSE ScanParts(parts, i + 1)
              ELSE ScanParts(parts, i + 1)

extract_json(text) ==
    LET t == Strip(text) IN
    IF StartsWith(t, FENCE)
    THEN LET r == ScanParts(Split(t, FENCE), 1) IN
         IF r.found THEN r.val ELSE t
    ELSE t

(***************************************************************************)
(* SpecExtract: extract_json applied to every text of at most MaxTokens    *)
(* tokens.                                                                 *)
(***************************************************************************)
Tokens == {FENCE, <<BQ>>, JSONTAG, <<"j">>, <<"{">>, <<"}">>, <<WS>>, <<"x">>}

ExtractIdle ==
    /\ ex_text = <<>>
    /\ ex_ntok = 0
    /\ ex_out = <<>>
    /\ ex_done = FALSE

RenderIdle ==
    /\ sections = <<>>
    /\ ordered_sections = <<>>
    /\ story = <<>>
    /\ rd_done = FALSE

(***************************************************************************)
(* The values of the pipeline                                              *)
(***************************************************************************)
StageNames == {"research_task", "profile_task", "resume_strategy_task",
               "resume_workshop_questions_task"}

\* The task names in a fixed order, to list a set of them.
NameSeq == <<"research_task", "profile_task", "resume_strategy_task",
             "resume_workshop_questions_task">>

\* crew.py:63, run_tailor.py:606, main.py:127
DefaultOrder == <<"research_task", "profile_task", "resume_strategy_task">>

\* run_workshop.py:83
WorkshopOrder == <<"resume_workshop_questions_task">>

NoUpload == [mime |-> "", bytes |-> "none", name |-> ""]

\* The resume uploads: the declared type, what the bytes are, the file name.
ResumeUploads ==
    { NoUpload,
      [mime |-> "application/pdf", bytes |-> "pdf", name |-> "cv.pdf"],
      [mime |-> "application/pdf", bytes |-> "garbage", name |-> "cv.pdf"],
      [mime |-> "text/plain", bytes |-> "utf8", name |-> "cv.txt"],
      [mime |-> "image/png", bytes |-> "garbage", name |-> "cv.png"] }

\* work_experience and os.getenv("PERSONAL_WRITEUP", ""): "" is absent/empty
Arguments ==
    [resume : ResumeUploads, work_experience : {"", "we"}, env : {"", "env"}]

NoArguments == [resume |-> NoUpload, work_experience |-> "", env |-> ""]

NoTmpdir == [exists |-> FALSE, files |-> {}]

NoOutput == [has |-> FALSE, text |-> <<>>]

NoRaw == [by |-> "", text |-> <<>>]

NoResult == [kind |-> "none", filename |-> <<>>, questions |-> "", text |-> <<>>]

PipelineIdle ==
    /\ pc = "idle"
    /\ entry = "none"
    /\ args = NoArguments
    /\ tmpdir = NoTmpdir
    /\ written = {}
    /\ tools = {}
    /\ order = <<>>
    /\ catalogue = {}
    /\ crew = <<>>
    /\ next = 1
    /\ status = <<>>
    /\ futures = <<>>
    /\ task_out = [n \in StageNames |-> NoOutput]
    /\ seen = <<>>
    /\ startlog = <<>>
    /\ raw = NoRaw
    /\ clean_json = <<>>
    /\ parsed = "none"
    /\ render_calls = 0
    /\ result = NoResult
    /\ error = "none"

\* The pipeline invocations that may run at the same time.
Invocations == 1..MaxInvocations

\* No concurrent invocation has been made.
ConcurrentIdle ==
    /\ inv_pc = [i \in Invocations |-> "idle"]
    /\ inv_dir = [i \in Invocations |-> 0]
    /\ inv_tools = [i \in Invocations |-> {}]
    /\ inv_crew = [i \in Invocations |-> {}]
    /\ inv_result = [i \in Invocations |-> 0]
    /\ tmp_dirs = {}
    /\ tmp_files = {}
    /\ cwd_files = {}
    /\ objects = 0
    /\ reads = {}
    /\ overwritten = {}

\* No access token.
NoToken == [kind |-> "none", sub |-> 0, exp |-> 0]

NoSession == [google_sub |-> "", email |-> "", token |-> NoToken]

NoBody == [kind |-> "null", id |-> 0, email |-> "", created_at |-> 0,
           last_login_at |-> 0]

NoResponse ==
    [route |-> "", cred |-> NoToken, status |-> 0, detail |-> "", body |-> NoBody,
     set_cookie |-> NoToken, ran_pipeline |-> FALSE, doc_access |-> FALSE, at |-> 0,
     resume_id |-> 0]

\* The server has started and no request was made.
ApiIdle ==
    /\ api_now = 0
    /\ users = {}
    /\ cookie = NoToken
    /\ session = NoSession
    /\ resp = NoResponse
    /\ tailored_resumes = {}

\* The requests POST /auth/google that may overlap.
MaxLogins == 2
Logins == 1..MaxLogins

NoAccount == [ok |-> FALSE, google_sub |-> "", email |-> ""]

NoLogin == [pc |-> "idle", user_info |-> NoAccount, existing |-> 0,
            user_id |-> 0, status |-> 0, token |-> NoToken]

\* No login is in progress; the index was created at startup (db.py:51-61).
LoginIdle ==
    /\ logins = [r \in Logins |-> NoLogin]
    /\ unique_index = TRUE

\* The names of the agents and tasks of the configurations, and the tool and
\* context names they may declare: web_rag is a tool that is never built,
\* ghost_task a task that no tasks.yaml holds.
AgentNames == {"researcher", "strategist"}
TaskNames == {"research_task", "profile_task"}
DeclaredToolNames == {"read_resume", "web_rag"}
DeclaredContextNames == {"research_task", "ghost_task"}

\* build_crew was not called on a configuration.
BuildIdle ==
    /\ bd_pc = "idle"
    /\ agents_cfg = [keys |-> {}, tools |-> [a \in AgentNames |-> <<>>]]
    /\ tasks_cfg = [keys |-> {}, agent |-> [t \in TaskNames |-> "researcher"],
                    context |-> [t \in TaskNames |-> <<>>]]
    /\ tool_instances = {}
    /\ agents = [a \in AgentNames |-> <<>>]
    /\ all_tasks = [t \in TaskNames |-> <<>>]

(***************************************************************************)
(* The workspace (run_tailor.py:565-601, run_workshop.py:41-77,            *)
(* main.py:24-89)                                                          *)
(***************************************************************************)
\* The mutant removes the directory only when the block ends normally.
ExitWorkspaceKeepOnError(td, raised) ==
    IF raised THEN td ELSE NoTmpdir

\* with TemporaryDirectory() as td: the directory and all it holds are
\* removed when the block is left, by return or by exception
ExitWorkspace(td, raised) == NoTmpdir

\* personal_writeup = work_experience or os.getenv("PERSONAL_WRITEUP", "")
personal_writeup(a) == IF a.work_experience # "" THEN a.work_experience ELSE a.env

\* mimetypes.guess_extension(resume_mime or "") or ".pdf"
GuessExtension(mime) ==
    CASE mime = "application/pdf" -> ".pdf"
      [] mime = "text/plain" -> ".txt"
      [] mime = "image/png" -> ".png"
      [] OTHER -> ".pdf"

\* _pdf_bytes_to_text: PdfReader raises on bytes that are no PDF; the text
\* of a PDF whose pages hold no text is empty.  A text is a sequence of
\* pieces.
pdf_bytes_to_text(bytes) ==
    IF bytes = "pdf" THEN [ok |-> TRUE, text |-> <<"pdf-text">>]
    ELSE IF bytes = "pdf-empty" THEN [ok |-> TRUE, text |-> <<>>]
    ELSE [ok |-> FALSE, text |-> <<>>]

\* file_bytes.decode("utf-8"), else file_bytes.decode("latin-1")
DecodeText(bytes) == IF bytes = "utf8" THEN <<"utf8-text">> ELSE <<"latin1-text">>

\* resume_mime or ext
MimeOr(mime, ext) == IF mime # "" THEN mime ELSE ext

EndsWithExt(name, ext) ==
    \/ ext = ".pdf" /\ name \in {"cv.pdf"}
    \/ ext = ".txt" /\ name \in {"cv.txt"}

\* run_tailor.py:576-587 and run_workshop.py:52-63: the extracted text
PipelineResumeText(up) ==
    LET ext == GuessExtension(up.mime) IN
    IF up.mime = "application/pdf" \/ ext = ".pdf"
    THEN pdf_bytes_to_text(up.bytes)
    ELSE [ok |-> TRUE,
          text |-> <<"[Resume uploaded as", MimeOr(up.mime, ext),
                     "; text extraction not supported]">>]

\* main.py:35-60 _extract_text_from_file
extract_text_from_file(up) ==
    IF up.mime = "application/pdf" \/ EndsWithExt(up.name, ".pdf")
    THEN pdf_bytes_to_text(up.bytes)
    ELSE IF up.mime = "text/plain" \/ EndsWithExt(up.name, ".txt")
    THEN [ok |-> TRUE, text |-> DecodeText(up.bytes)]
    ELSE IF GuessExtension(up.mime) = ".pdf"
    THEN pdf_bytes_to_text(up.bytes)
    ELSE [ok |-> TRUE,
          text |-> <<"[", (IF up.name # "" THEN up.name ELSE "resume"),
                     "uploaded as", MimeOr(up.mime, GuessExtension(up.mime)),
                     "; text extraction not supported]">>]

ResumeText(e, up) ==
    IF e = "run" THEN extract_text_from_file(up) ELSE PipelineResumeText(up)

\* The files written for the resume: the raw upload (not in main.py) and the
\* extracted text.
ResumeFiles(e, up) ==
    (IF e = "run" THEN {}
     ELSE {[name |-> "resume" \o GuessExtension(up.mime), content |-> <<up.bytes>>]})
    \cup {[name |-> "resume_text.mdx", content |-> ResumeText(e, up).text]}

\* The raw upload is written before the text is extracted.
FilesBeforeExtraction(e, up) ==
    IF e = "run" THEN {}
    ELSE {[name |-> "resume" \o GuessExtension(up.mime), content |-> <<up.bytes>>]}

WorkExpFiles(a) ==
    IF personal_writeup(a) # ""
    THEN {[name |-> "work_experience.mdx", content |-> <<personal_writeup(a)>>]}
    ELSE {}

FileNames(files) == {f.name : f \in files}

\* tools/__init__.py:7-30 build_tools
build_tools(files) ==
    {"search_tool", "scrape_tool"}
    \cup (IF "resume_text.mdx" \in FileNames(files)
          THEN {"read_resume", "semantic_search_resume"} ELSE {})
    \cup (IF "work_experience.mdx" \in FileNames(files)
          THEN {"read_workexp", "semantic_search_workexp"} ELSE {})

(***************************************************************************)
(* build_crew (crew.py:12-70)                                              *)
(***************************************************************************)
\* The context references a tasks.yaml may declare: (task, context name).
RECURSIVE RefSetsUpTo(_)
RefSetsUpTo(k) ==
    IF k = 0 THEN {{}}
    ELSE LET smaller == RefSetsUpTo(k - 1) IN
         smaller \cup {R \cup {r} : R \in smaller, r \in StageNames \X StageNames}

RefSets == RefSetsUpTo(MaxCtxRefs)

\* The contents of tasks.yaml: its task names, those with async_execution
\* set, and the context names each declares.
Catalogues ==
    {c \in [keys : SUBSET StageNames, async : SUBSET StageNames, refs : RefSets] :
        /\ c.async \subseteq c.keys
        /\ \A r \in c.refs : r[1] \in c.keys}

\* cfg.get("context", [])
DeclaredContext(cfg, n) == SelectSeq(NameSeq, LAMBDA m : <<n, m>> \in cfg.refs)

\* lines 47-60: the Task of a catalogue entry, its context wired to the
\* tasks of the catalogue that its context names
NewTask(cfg, n) ==
    [name |-> n,
     async_execution |-> n \in cfg.async,
     context |-> SelectSeq(DeclaredContext(cfg, n), LAMBDA c : c \in cfg.keys)]

\* order = task_names or [...] (line 63)
EffectiveOrder(task_names) ==
    IF task_names = <<>> THEN DefaultOrder ELSE task_names

\* selected_tasks = [all_tasks[n] for n in order if n in all_tasks] (line 64)
SelectTasks(cfg, ord) ==
    LET known == SelectSeq(ord, LAMBDA n : n \in cfg.keys) IN
    [i \in 1..Len(known) |-> NewTask(cfg, known[i])]

\* The index of a task name among the selected tasks, 0 when not selected.
IndexOf(tasks, n) ==
    IF \E i \in 1..Len(tasks) : tasks[i].name = n
    THEN CHOOSE i \in 1..Len(tasks) : tasks[i].name = n
    ELSE 0

\* Crew(...) (lines 66-70) validates its tasks: at most one async task at the
\* end, no context on a later task, and no async task whose context holds an
\* async task it directly follows.
CrewIsValid(tasks) ==
    LET n == Len(tasks) IN
    /\ ~(n >= 2 /\ tasks[n].async_execution /\ tasks[n - 1].async_execution)
    /\ \A i \in 1..n : \A k \in 1..Len(tasks[i].context) :
          LET j == IndexOf(tasks, tasks[i].context[k]) IN
          /\ j <= i
          /\ ~(/\ tasks[i].async_execution
               /\ j > 0 /\ j < i
               /\ \A m \in j..(i - 1) : tasks[m].async_execution)

(***************************************************************************)
(* The generated text and its parsing (run_tailor.py:616-623,              *)
(* run_workshop.py:93-113, models.py:22-69)                                *)
(***************************************************************************)
\* The JSON object bodies a worker may write, each one character of a text.
Bodies == {"resume", "resume-no-headline", "resume-empty-headline",
           "resume-sections-str",
           "questions", "questions-null", "questions-str"}

\* The kind of value each field of an object holds ("absent": no such key).
EmptyObject ==
    [contact |-> "absent", headline |-> "absent", summary |-> "absent",
     sections |-> "absent", questions |-> "absent"]

ResumeObject ==
    [contact |-> "object", headline |-> "str", summary |-> "str",
     sections |-> "list_obj", questions |-> "absent"]

\* What json.loads makes of a body.
DecodeBody(b) ==
    CASE b = "resume" -> ResumeObject
      [] b = "resume-no-headline" -> [ResumeObject EXCEPT !.headline = "absent"]
      [] b = "resume-empty-headline" -> ResumeObject
      [] b = "resume-sections-str" -> [ResumeObject EXCEPT !.sections = "str"]
      [] b = "questions" -> [EmptyObject EXCEPT !.questions = "list_str"]
      [] b = "questions-null" -> [EmptyObject EXCEPT !.questions = "null"]
      [] b = "questions-str" -> [EmptyObject EXCEPT !.questions = "str"]

\* json.loads: an object, or JSONDecodeError
JsonLoads(text) ==
    IF text = <<"{", "}">> THEN [ok |-> TRUE, obj |-> EmptyObject]
    ELSE IF Len(text) = 3 /\ text[1] = "{" /\ text[3] = "}" /\ text[2] \in Bodies
         THEN [ok |-> TRUE, obj |-> DecodeBody(text[2])]
         ELSE [ok |-> FALSE, obj |-> EmptyObject]

\* The characters of the headline a body holds (none when it is empty or
\* absent).
HeadlineOf(b) ==
    IF b = "resume" THEN <<"S", "r", " ", "D", "e", "v", " ", "2">> ELSE <<>>

\* tailored.headline of the validated text
Headline(text) == IF Len(text) = 3 THEN HeadlineOf(text[2]) ELSE <<>>

\* str.replace(" ", "_") on the characters
ReplaceSpaces(chars) ==
    [i \in 1..Len(chars) |-> IF chars[i] = " " THEN "_" ELSE chars[i]]

\* str.lower() on the characters
LowerChars(chars) ==
    [i \in 1..Len(chars) |->
        CASE chars[i] = "S" -> "s"
          [] chars[i] = "D" -> "d"
          [] OTHER -> chars[i]]

\* run_tailor.py:629-630: (headline or "tailored_resume"), spaces replaced,
\* lower-cased, with the suffix
SafeFilename(headline) ==
    LowerChars(ReplaceSpaces(IF headline = <<>> THEN <<"tailored_resume">>
                             ELSE headline))
    \o <<".pdf">>

Plain(b) == <<"{", b, "}">>

Fenced(b) == FENCE \o JSONTAG \o <<WS, "{", b, "}", WS>> \o FENCE

\* What a task that is not the last one writes.
OpaqueText == <<"x">>

\* What the last task may write.
RawTexts ==
    { Fenced("resume"), Plain("resume-no-headline"), Plain("resume-empty-headline"),
      Plain("resume-sections-str"),
      Fenced("questions"), Plain("questions-null"), Plain("questions-str"),
      <<"{", "}">>, <<"x", WS, "x">> }

\* The mutant does not require the headline.
ValidTailoredResumeNoHeadline(obj) ==
    /\ obj.contact = "object"
    /\ obj.summary = "str"
    /\ obj.sections \in {"list_obj", "list_empty"}

\* models.py:45-49 TailoredResume: four required fields of fixed types
ValidTailoredResume(obj) ==
    /\ obj.contact = "object"
    /\ obj.headline = "str"
    /\ obj.summary = "str"
    /\ obj.sections \in {"list_obj", "list_empty"}

\* TailoredResume.model_validate_json(clean_json) (run_tailor.py:623)
model_validate_json(text) ==
    JsonLoads(text).ok /\ ValidTailoredResume(JsonLoads(text).obj)

\* bool(value) of a field
Truthy(kind) == kind \in {"str", "list_str", "list_obj", "object"}

\* parsed.get("questions") or [] (run_workshop.py:101)
QuestionsOrEmpty(obj) ==
    IF Truthy(obj.questions) THEN obj.questions ELSE "list_empty"

\* models.py:67-69 WorkshopResponse: questions is a List[str]
ValidWorkshopResponse(questions) == questions \in {"list_str", "list_empty"}

InitExtract ==
    ExtractIdle /\ RenderIdle /\ PipelineIdle /\ ConcurrentIdle /\ output_file = FALSE
    /\ ApiIdle /\ BuildIdle /\ LoginIdle

\* The worker's free-form output grows by one token.
TypeToken ==
    /\ ~ex_done
    /\ ex_ntok < MaxTokens
    /\ \E tok \in Tokens : ex_text' = ex_text \o tok
    /\ ex_ntok' = ex_ntok + 1
    /\ UNCHANGED <<ex_out, ex_done, rdvars, plvars, ccvars, apivars, bdvars, lgvars>>

\* clean_json = extract_json(raw_str)
CallExtractJson ==
    /\ ~ex_done
    /\ ex_out' = extract_json(ex_text)
    /\ ex_done' = TRUE
    /\ UNCHANGED <<ex_text, ex_ntok, rdvars, plvars, ccvars, apivars, bdvars, lgvars>>

NextExtract == TypeToken \/ CallExtractJson

SpecExtract == InitExtract /\ [][NextExtract]_vars

(***************************************************************************)
(* resume_to_pdf: the section part (run_tailor.py:329-394)                 *)
(***************************************************************************)
Titles == {"Education", "education", "Experience", "Projects", "Skills", "Awards"}

\* str.lower() on the titles
Lower(title) ==
    CASE title = "Education" -> "education"
      [] title = "education" -> "education"
      [] title = "Experience" -> "experience"
      [] title = "Projects" -> "projects"
      [] title = "Skills" -> "skills"
      [] title = "Awards" -> "awards"

\* str.upper() on the titles
Upper(title) ==
    CASE title = "Education" -> "EDUCATION"
      [] title = "education" -> "EDUCATION"
      [] title = "Experience" -> "EXPERIENCE"
      [] title = "Projects" -> "PROJECTS"
      [] title = "Skills" -> "SKILLS"
      [] title = "Awards" -> "AWARDS"

\* The item lists a section may hold (an item is a loosely typed mapping).
ItemLists == {<<>>, <<"a">>, <<"b">>}

Sections == [title : Titles, items : ItemLists]

\* for key in ("Education", "Experience", "Projects")
PriorityKeys == <<"Education", "Experience", "Projects">>

\* x in list (Python compares the dicts by value)
InList(x, list) == \E i \in 1..Len(list) : list[i] = x

\* find_section: the first section with that title, case-insensitive, as a
\* list of one section; None is the empty list
RECURSIVE FindFrom(_, _, _)
FindFrom(secs, title, i) ==
    IF i > Len(secs) THEN <<>>
    ELSE IF Lower(secs[i].title) = Lower(title) THEN <<secs[i]>>
         ELSE FindFrom(secs, title, i + 1)

find_section(secs, title) == FindFrom(secs, title, 1)

\* lines 341-345: the first section of each priority title, in key order
RECURSIVE PriorityPass(_, _, _)
PriorityPass(secs, k, acc) ==
    IF k > Len(PriorityKeys) THEN acc
    ELSE PriorityPass(secs, k + 1, acc \o find_section(secs, PriorityKeys[k]))

\* lines 348-350: every other section that is not already in the list
RECURSIVE RemainingPass(_, _, _)
RemainingPass(secs, i, acc) ==
    IF i > Len(secs) THEN acc
    ELSE RemainingPass(secs, i + 1,
                       IF InList(secs[i], acc) THEN acc ELSE Append(acc, secs[i]))

OrderSections(secs) == RemainingPass(secs, 1, PriorityPass(secs, 1, <<>>))

\* lines 362-394: one flowable per item, then the spacer
ItemStyle(title) ==
    IF Lower(title) = "education" THEN "education"
    ELSE IF Lower(title) = "experience" THEN "experience"
    ELSE "generic"

RECURSIVE RenderItems(_, _, _)
RenderItems(title, items, i) ==
    IF i > Len(items) THEN <<>>
    ELSE <<[el |-> "item", text |-> items[i], style |-> ItemStyle(title)],
           [el |-> "spacer", text |-> "", style |-> ""]>>
         \o RenderItems(title, items, i + 1)

\* The mutant appends the title of a section without items too.
RenderSectionAlwaysTitle(section) ==
    <<[el |-> "heading", text |-> Upper(section.title), style |-> ""]>>
    \o RenderItems(section.title, section.items, 1)

\* lines 353-360: a section without items is skipped, else its upper-cased
\* title is appended before its items
RenderSection(section) ==
    IF section.items = <<>> THEN <<>>
    ELSE <<[el |-> "heading", text |-> Upper(section.title), style |-> ""]>>
         \o RenderItems(section.title, section.items, 1)

RECURSIVE RenderSections(_, _)
RenderSections(ordered, i) ==
    IF i > Len(ordered) THEN <<>>
    ELSE RenderSection(ordered[i]) \o RenderSections(ordered, i + 1)

(***************************************************************************)
(* SpecRender: resume_to_pdf on every list of at most MaxSections sections *)
(***************************************************************************)
InitRender ==
    ExtractIdle /\ RenderIdle /\ PipelineIdle /\ ConcurrentIdle /\ output_file = FALSE
    /\ ApiIdle /\ BuildIdle /\ LoginIdle

\* The parsed resume holds one more section.
AddSection ==
    /\ ~rd_done
    /\ Len(sections) < MaxSections
    /\ \E s \in Sections : sections' = Append(sections, s)
    /\ UNCHANGED <<ordered_sections, story, rd_done, exvars, plvars, ccvars, apivars, bdvars, lgvars>>

\* pdf_bytes = resume_to_pdf(tailored.model_dump())
CallResumeToPdf ==
    /\ ~rd_done
    /\ ordered_sections' = OrderSections(sections)
    /\ story' = RenderSections(OrderSections(sections), 1)
    /\ rd_done' = TRUE
    /\ UNCHANGED <<sections, exvars, plvars, ccvars, apivars, bdvars, lgvars>>

NextRender == AddSection \/ CallResumeToPdf

SpecRender == InitRender /\ [][NextRender]_vars

(***************************************************************************)
(* The pipeline entry points: run_tailor_pipeline (run_tailor.py:524-637), *)
(* run_workshop_pipeline (run_workshop.py:16-113), run (main.py:92-138)    *)
(***************************************************************************)
Entries == {"tailor", "workshop", "run"}

EntryOrder(e) == IF e = "workshop" THEN WorkshopOrder ELSE DefaultOrder

\* An exception leaves the with block: the directory is removed on the way.
Raise(err) ==
    /\ pc' = "raised"
    /\ error' = err
    /\ tmpdir' = ExitWorkspace(tmpdir, TRUE)

\* The call, up to with TemporaryDirectory() as td.
Enter ==
    /\ pc = "idle"
    /\ \E e \in Entries, a \in Arguments :
          /\ entry' = e
          /\ args' = a
          /\ order' = EntryOrder(e)
    /\ tmpdir' = [exists |-> TRUE, files |-> {}]
    /\ pc' = "with"
    /\ UNCHANGED <<exvars, rdvars, ccvars, apivars, bdvars, lgvars, written, tools, catalogue, crew, kovars, outvars>>

\* Steps 1 and 2: the resume text and the work experience are written
\* (run_tailor.py:573-595, run_workshop.py:49-70, main.py:63-89).
PrepareFiles ==
    /\ pc = "with"
    /\ LET up == args.resume
           has_resume == up.bytes # "none"
       IN  IF has_resume /\ ~ResumeText(entry, up).ok
           THEN /\ written' = written \cup FileNames(FilesBeforeExtraction(entry, up))
                /\ Raise("PdfReadError")
           ELSE LET files == (IF has_resume THEN ResumeFiles(entry, up) ELSE {})
                             \cup WorkExpFiles(args)
                IN  /\ tmpdir' = [exists |-> TRUE, files |-> files]
                    /\ written' = written \cup FileNames(files)
                    /\ pc' = "prepared"
                    /\ error' = error
    /\ UNCHANGED <<exvars, rdvars, ccvars, apivars, bdvars, lgvars, entry, args, tools, bcvars, kovars,
                   clean_json, parsed, render_calls, result>>

\* Step 3: tools = build_tools(resume_text_path, work_experience_path)
BuildTools ==
    /\ pc = "prepared"
    /\ tools' = build_tools(tmpdir.files)
    /\ pc' = "tooled"
    /\ UNCHANGED <<exvars, rdvars, ccvars, apivars, bdvars, lgvars, entry, args, tmpdir, written, bcvars, kovars, outvars>>

\* Step 4: crew = build_crew(tool_instances=tools, task_names=...), which
\* reads tasks.yaml; kickoff starts with the first task.
BuildCrew ==
    /\ pc = "tooled"
    /\ \E cfg \in Catalogues :
          /\ catalogue' = cfg.keys
          /\ LET selected_tasks == SelectTasks(cfg, order) IN
             IF CrewIsValid(selected_tasks)
             THEN /\ crew' = selected_tasks
                  /\ status' = [i \in 1..Len(selected_tasks) |-> "pending"]
                  /\ seen' = [i \in 1..Len(selected_tasks) |-> {}]
                  /\ pc' = "kickoff"
                  /\ UNCHANGED <<tmpdir, error>>
             ELSE /\ Raise("CrewValidationError")
                  /\ UNCHANGED <<crew, status, seen>>
    /\ UNCHANGED <<exvars, rdvars, ccvars, apivars, bdvars, lgvars, entry, args, written, tools, order, next, futures, task_out,
                   startlog, raw, clean_json, parsed, render_calls, result>>

(***************************************************************************)
(* crew.kickoff (run_tailor.py:616, run_workshop.py:93, main.py:137): the  *)
(* sequential process of the Crew built by crew.py:66-70                   *)
(***************************************************************************)
Running(i) == status[i] = "running"

\* The orchestrator is inside a synchronous task.
Blocked == \E i \in 1..Len(crew) : Running(i) /\ ~crew[i].async_execution

\* The context outputs a task is started with: those of the tasks in its
\* context that have an output.
VisibleContext(task) ==
    {task.context[k] : k \in {k \in 1..Len(task.context) :
                                task_out[task.context[k]].has}}

\* The next task is started: a synchronous one after the pending async
\* tasks were joined, an asynchronous one at once, in its own thread.
StartStage ==
    /\ pc = "kickoff"
    /\ next <= Len(crew)
    /\ ~Blocked
    /\ IF crew[next].async_execution THEN TRUE ELSE futures = <<>>
    /\ status' = [status EXCEPT ![next] = "running"]
    /\ seen' = [seen EXCEPT ![next] = VisibleContext(crew[next])]
    /\ startlog' = Append(startlog, crew[next].name)
    /\ futures' = IF crew[next].async_execution THEN Append(futures, next)
                  ELSE futures
    /\ next' = next + 1
    /\ UNCHANGED <<exvars, rdvars, ccvars, apivars, bdvars, lgvars, pc, entry, args, wsvars, bcvars, task_out, raw, outvars>>

\* What the task at index i may write.
StageTexts(i) == IF i = Len(crew) THEN RawTexts ELSE {OpaqueText}

\* A worker returns its text.
FinishStage ==
    /\ \E i \in 1..Len(crew) :
          /\ Running(i)
          /\ status' = [status EXCEPT ![i] = "done"]
          /\ \E t \in StageTexts(i) :
                task_out' = [task_out EXCEPT ![crew[i].name] =
                                [has |-> TRUE, text |-> t]]
    /\ UNCHANGED <<exvars, rdvars, ccvars, apivars, bdvars, lgvars, pc, entry, args, wsvars, bcvars, next, futures, seen,
                   startlog, raw, outvars>>

\* A worker or a tool fails: in a synchronous task the exception leaves
\* kickoff, in an asynchronous one it is kept in the future.
FailStage ==
    /\ \E i \in 1..Len(crew) :
          /\ Running(i)
          /\ status' = [status EXCEPT ![i] = "failed"]
          /\ IF crew[i].async_execution
             THEN UNCHANGED <<pc, error, tmpdir>>
             ELSE Raise("StageError")
    /\ UNCHANGED <<exvars, rdvars, ccvars, apivars, bdvars, lgvars, entry, args, written, tools, bcvars, next, futures, task_out,
                   seen, startlog, raw, clean_json, parsed, render_calls, result>>

\* Before a synchronous task and at the end, the pending futures are
\* joined in order; the exception of a failed one is raised.
JoinFuture ==
    /\ pc = "kickoff"
    /\ futures # <<>>
    /\ IF next > Len(crew) THEN TRUE ELSE ~crew[next].async_execution
    /\ status[Head(futures)] \in {"done", "failed"}
    /\ IF status[Head(futures)] = "done"
       THEN /\ futures' = Tail(futures)
            /\ UNCHANGED <<pc, error, tmpdir>>
       ELSE /\ Raise("StageError")
            /\ UNCHANGED futures
    /\ UNCHANGED <<exvars, rdvars, ccvars, apivars, bdvars, lgvars, entry, args, written, tools, bcvars, next, status, task_out,
                   seen, startlog, raw, clean_json, parsed, render_calls, result>>

\* kickoff returns the output of the last task; a crew without tasks has
\* no output to return, or returns an empty one.
KickoffReturn ==
    /\ pc = "kickoff"
    /\ next > Len(crew)
    /\ futures = <<>>
    /\ ~Blocked
    /\ IF crew = <<>>
       THEN \/ /\ Raise("NoTaskOutput")
               /\ UNCHANGED raw
            \/ /\ pc' = "kicked"
               /\ raw' = NoRaw
               /\ UNCHANGED <<error, tmpdir>>
       ELSE /\ pc' = "kicked"
            /\ raw' = [by |-> crew[Len(crew)].name,
                       text |-> task_out[crew[Len(crew)].name].text]
            /\ UNCHANGED <<error, tmpdir>>
    /\ UNCHANGED <<exvars, rdvars, ccvars, apivars, bdvars, lgvars, entry, args, written, tools, bcvars, next, status, futures,
                   task_out, seen, startlog, clean_json, parsed, render_calls,
                   result>>

(***************************************************************************)
(* After kickoff                                                           *)
(***************************************************************************)
\* run_tailor.py:617-623: extract_json, then TailoredResume validation
ParseResume ==
    /\ pc = "kicked"
    /\ entry = "tailor"
    /\ clean_json' = extract_json(raw.text)
    /\ IF model_validate_json(extract_json(raw.text))
       THEN /\ parsed' = "TailoredResume"
            /\ pc' = "parsed"
            /\ UNCHANGED <<error, tmpdir>>
       ELSE /\ Raise("ValidationError")
            /\ UNCHANGED parsed
    /\ UNCHANGED <<exvars, rdvars, ccvars, apivars, bdvars, lgvars, entry, args, written, tools, bcvars, kovars, render_calls,
                   result>>

\* run_tailor.py:626: pdf_bytes = resume_to_pdf(tailored.model_dump()); the
\* document build may raise
RenderPdf ==
    /\ pc = "parsed"
    /\ render_calls' = render_calls + 1
    /\ \/ /\ pc' = "rendered"
          /\ UNCHANGED <<error, tmpdir>>
       \/ Raise("RenderError")
    /\ UNCHANGED <<exvars, rdvars, ccvars, apivars, bdvars, lgvars, entry, args, written, tools, bcvars, kovars, clean_json,
                   parsed, result>>

\* run_tailor.py:629-637: the PDF and its file name are returned
ReturnPdf ==
    /\ pc = "rendered"
    /\ result' = [NoResult EXCEPT !.kind = "pdf",
                                  !.filename = SafeFilename(Headline(clean_json))]
    /\ pc' = "returned"
    /\ tmpdir' = ExitWorkspace(tmpdir, FALSE)
    /\ UNCHANGED <<exvars, rdvars, ccvars, apivars, bdvars, lgvars, entry, args, written, tools, bcvars, kovars, clean_json,
                   parsed, render_calls, error>>

\* run_workshop.py:94-113: extract_json, json.loads, the questions, the
\* WorkshopResponse
ParseQuestions ==
    /\ pc = "kicked"
    /\ entry = "workshop"
    /\ clean_json' = extract_json(raw.text)
    /\ LET loaded == JsonLoads(extract_json(raw.text))
           questions == QuestionsOrEmpty(loaded.obj)
       IN  IF ~loaded.ok
           THEN /\ Raise("JSONDecodeError")
                /\ UNCHANGED <<parsed, result>>
           ELSE IF ~ValidWorkshopResponse(questions)
           THEN /\ Raise("ValidationError")
                /\ UNCHANGED <<parsed, result>>
           ELSE /\ parsed' = "WorkshopResponse"
                /\ result' = [NoResult EXCEPT !.kind = "workshop",
                                              !.questions = questions]
                /\ pc' = "returned"
                /\ tmpdir' = ExitWorkspace(tmpdir, FALSE)
                /\ error' = error
    /\ UNCHANGED <<exvars, rdvars, ccvars, apivars, bdvars, lgvars, entry, args, written, tools, bcvars, kovars, render_calls>>

\* main.py:137-138: return str(result)
ReturnStr ==
    /\ pc = "kicked"
    /\ entry \in {"run", "crew"}
    /\ result' = [NoResult EXCEPT !.kind = "text", !.text = raw.text]
    /\ pc' = "returned"
    /\ tmpdir' = ExitWorkspace(tmpdir, FALSE)
    /\ UNCHANGED <<exvars, rdvars, ccvars, apivars, bdvars, lgvars, entry, args, written, tools, bcvars, kovars, clean_json,
                   parsed, render_calls, error>>

Init ==
    ExtractIdle /\ RenderIdle /\ PipelineIdle /\ ConcurrentIdle /\ output_file = FALSE
    /\ ApiIdle /\ BuildIdle /\ LoginIdle

Next ==
    \/ Enter \/ PrepareFiles \/ BuildTools \/ BuildCrew
    \/ StartStage \/ FinishStage \/ FailStage \/ JoinFuture \/ KickoffReturn
    \/ ParseResume \/ RenderPdf \/ ReturnPdf
    \/ ParseQuestions \/ ReturnStr

Spec == Init /\ [][Next]_vars

(***************************************************************************)
(* SpecCrew: build_crew called with every order of at most MaxOrder task   *)
(* names, and the crew kicked off                                          *)
(***************************************************************************)
\* The task_names lists: no name twice.
Orders ==
    UNION {{o \in [1..k -> StageNames] : \A i, j \in 1..k : i # j => o[i] # o[j]} :
           k \in 0..MaxOrder}

\* build_crew(tool_instances=None, task_names=...) is about to be called.
EnterCrew ==
    /\ pc = "idle"
    /\ \E task_names \in Orders : order' = EffectiveOrder(task_names)
    /\ entry' = "crew"
    /\ pc' = "tooled"
    /\ UNCHANGED <<exvars, rdvars, ccvars, apivars, bdvars, lgvars, args, wsvars, catalogue, crew, kovars, outvars>>

InitCrew == Init

NextCrew ==
    \/ EnterCrew \/ BuildCrew
    \/ StartStage \/ FinishStage \/ FailStage \/ JoinFuture \/ KickoffReturn
    \/ ReturnStr

SpecCrew == InitCrew /\ [][NextCrew]_vars

(***************************************************************************)
(* Properties                                                              *)
(***************************************************************************)
Terminated == pc \in {"returned", "raised"}

\* build_crew has been called and has returned or raised.
AfterBuild == pc \notin {"idle", "with", "prepared", "tooled"}

\* kickoff has returned its result.
KickoffReturned ==
    \/ pc \in {"kicked", "parsed", "rendered", "returned"}
    \/ pc = "raised" /\ error \in {"JSONDecodeError", "ValidationError", "RenderError"}

Started(i) == status[i] # "pending"

AnyStageFailed == \E i \in 1..Len(crew) : status[i] = "failed"

IsPrefix(s, t) == Len(s) <= Len(t) /\ SubSeq(t, 1, Len(s)) = s

\* C1: once run_tailor_pipeline or run_workshop_pipeline has returned or
\* raised, the workspace directory and every file written into it are gone.
C1_WorkspaceRemoved ==
    (entry \in {"tailor", "workshop"} /\ Terminated) =>
        /\ ~tmpdir.exists
        /\ \A name \in written : name \notin FileNames(tmpdir.files)

\* C1 witness: a stage failed after both artifacts were written, the call
\* raised, and the directory is gone.
C1_Witness ==
    /\ entry = "tailor"
    /\ pc = "raised"
    /\ error = "StageError"
    /\ {"resume_text.mdx", "work_experience.mdx"} \subseteq written
    /\ tmpdir = NoTmpdir

\* C1 witness of the render failure.
C1_WitnessRenderFailure ==
    /\ entry = "tailor"
    /\ pc = "raised"
    /\ error = "RenderError"
    /\ written # {}
    /\ tmpdir = NoTmpdir

\* C1 witness of the successful workshop call.
C1_WitnessSuccess ==
    /\ entry = "workshop"
    /\ pc = "returned"
    /\ written # {}
    /\ tmpdir = NoTmpdir

\* C2: when the requested order names a stage that is not in the catalogue,
\* build_crew fails with a configuration error before any stage is started;
\* it returns no crew.
C2_UnknownStageFailsBuild ==
    (AfterBuild /\ \E i \in 1..Len(order) : order[i] \notin catalogue) =>
        /\ pc = "raised"
        /\ error = "CrewValidationError"
        /\ startlog = <<>>

\* C2 witness: an order with an unknown name was requested and a crew that
\* omits it is running.
C2_Witness ==
    /\ pc = "kickoff"
    /\ \E i \in 1..Len(order) : order[i] \notin catalogue
    /\ startlog # <<>>

\* Every requested name is in the catalogue.
OrderIsKnown == \A i \in 1..Len(order) : order[i] \in catalogue

\* C3: the stages are started in the requested order, each only after the
\* one before it has completed, and none twice: the started stages are a
\* prefix of the requested order, whatever async_execution the catalogue
\* sets.  Stated for the orders whose names are all in the catalogue.
C3_StrictOrder ==
    (AfterBuild /\ OrderIsKnown) =>
        /\ IsPrefix(startlog, order)
        /\ \A i, j \in 1..Len(crew) : (i < j /\ Started(j)) => ~Running(i)
        /\ \A i, j \in 1..Len(startlog) : i # j => startlog[i] # startlog[j]

\* C3 on the catalogues that set async_execution for no selected stage.
C3_StrictOrderSync ==
    (AfterBuild /\ OrderIsKnown /\ \A i \in 1..Len(crew) : ~crew[i].async_execution)
        => C3_StrictOrder

\* C3 witness: three stages were requested and all three have been started.
C3_Witness ==
    /\ Len(order) = 3
    /\ startlog = order

\* C4: whenever a selected stage has started, every other stage in its
\* resolved context list had completed and its output was part of the
\* stage's input.
C4_ContextComplete ==
    \A i \in 1..Len(crew) :
        Started(i) =>
            \A k \in 1..Len(crew[i].context) :
                crew[i].context[k] # crew[i].name
                    => crew[i].context[k] \in seen[i]

\* C4 witness: for an order [A, B] with A in the context of B, B has started
\* with the output of A.
C4_Witness ==
    /\ Len(crew) = 2
    /\ Len(order) = 2
    /\ crew[2].context = <<crew[1].name>>
    /\ Started(2)
    /\ seen[2] = {crew[1].name}

\* C5: the raw result of a crew's kickoff, which the parser is handed, is
\* the output of the last stage named in the requested order, never that of
\* an earlier stage.
C5_ResultIsLastStage ==
    (KickoffReturned /\ crew # <<>>) =>
        /\ raw.by = order[Len(order)]
        /\ raw.text = task_out[order[Len(order)]].text

\* C5 witness: the three-stage tailoring run returned the output of
\* resume_strategy_task.
C5_Witness ==
    /\ entry = "tailor"
    /\ pc = "kicked"
    /\ Len(crew) = 3
    /\ raw.by = "resume_strategy_task"

PipelineEntry == entry \in {"tailor", "workshop"}

NoAsyncStage == \A i \in 1..Len(crew) : ~crew[i].async_execution

\* C6: in run_tailor_pipeline and run_workshop_pipeline, once a stage
\* invocation has failed, no stage is started, nothing is parsed or
\* rendered, no result is returned, and the call ends by raising.
C6_StageFailureAborts ==
    /\ []((PipelineEntry /\ AnyStageFailed) =>
            /\ ~KickoffReturned
            /\ parsed = "none"
            /\ render_calls = 0
            /\ result = NoResult)
    /\ []((PipelineEntry /\ AnyStageFailed /\ Terminated) => pc = "raised")
    /\ [][(PipelineEntry /\ AnyStageFailed) => startlog' = startlog]_vars

\* C6 on the crews without an asynchronous stage.
C6_SyncStageFailureAborts ==
    /\ []((PipelineEntry /\ AnyStageFailed /\ NoAsyncStage) =>
            /\ pc = "raised"
            /\ error = "StageError"
            /\ parsed = "none"
            /\ render_calls = 0
            /\ result = NoResult)
    /\ [][(PipelineEntry /\ AnyStageFailed /\ NoAsyncStage)
            => startlog' = startlog]_vars

\* C6 witness: the second of three stages failed and the call raised.
C6_Witness ==
    /\ entry = "tailor"
    /\ Len(crew) = 3
    /\ status = <<"done", "failed", "pending">>
    /\ pc = "raised"
    /\ error = "StageError"

\* The text is a JSON object with the four required fields of a
\* TailoredResume, each of its type.
IsTailoredResumeJson(text) ==
    /\ JsonLoads(text).ok
    /\ LET obj == JsonLoads(text).obj IN
       /\ obj.contact = "object"
       /\ obj.headline = "str"
       /\ obj.summary = "str"
       /\ obj.sections \in {"list_obj", "list_empty"}

\* C7: resume_to_pdf is called only after the extracted text was validated
\* as a TailoredResume; on a payload that is no JSON or violates the schema
\* the pipeline raises, never calls resume_to_pdf and returns nothing.
C7_RenderOnlyAfterValidation ==
    /\ render_calls > 0 =>
          /\ entry = "tailor"
          /\ parsed = "TailoredResume"
          /\ IsTailoredResumeJson(clean_json)
    /\ (entry = "tailor" /\ KickoffReturned /\ pc # "kicked"
          /\ ~IsTailoredResumeJson(extract_json(raw.text))) =>
          /\ pc = "raised"
          /\ error = "ValidationError"
          /\ render_calls = 0
          /\ result = NoResult

\* C7 witness: the payload was valid JSON without the headline; the call
\* raised and nothing was rendered.
C7_Witness ==
    /\ entry = "tailor"
    /\ pc = "raised"
    /\ error = "ValidationError"
    /\ clean_json = Plain("resume-no-headline")
    /\ render_calls = 0

\* C7 witness of the other case: a fenced valid payload was rendered.
C7_WitnessRendered ==
    /\ entry = "tailor"
    /\ pc = "rendered"
    /\ raw.text = Fenced("resume")
    /\ render_calls = 1

\* C8: the workshop pipeline returns a result only when the "questions"
\* field of the payload is a list of strings; a payload where it is missing,
\* null or of another type makes the call raise.
C8_WorkshopSchemaViolationFails ==
    (entry = "workshop" /\ KickoffReturned /\ pc # "kicked"
        /\ JsonLoads(extract_json(raw.text)).ok
        /\ JsonLoads(extract_json(raw.text)).obj.questions
              \notin {"list_str", "list_empty"}) =>
        /\ pc = "raised"
        /\ result = NoResult

\* C8 witness: the payload held a string for "questions" and the call
\* raised.
C8_Witness ==
    /\ entry = "workshop"
    /\ pc = "raised"
    /\ error = "ValidationError"
    /\ clean_json = Plain("questions-str")

\* A trimmed fence segment that is a JSON body, bare or after the "json" tag.
IsJsonSegment(p) ==
    \/ IsBraced(p)
    \/ StartsWith(p, JSONTAG) /\ IsBraced(AfterTag(p))

\* The body of such a segment, without the tag.
SegmentBody(p) == IF IsBraced(p) THEN p ELSE AfterTag(p)

C9_WitnessUnchanged ==
    /\ ex_done
    /\ StartsWith(Strip(ex_text), FENCE)
    /\ Len(ex_text) > Len(FENCE)
    /\ ex_out = Strip(ex_text)

\* The place of a title in the fixed order: Education, Experience, Projects,
\* then every other title.
Rank(title) ==
    IF Lower(title) = "education" THEN 1
    ELSE IF Lower(title) = "experience" THEN 2
    ELSE IF Lower(title) = "projects" THEN 3
    ELSE 4

\* The sections of a list that are rendered (those with items).
WithItems(secs) == SelectSeq(secs, LAMBDA s : s.items # <<>>)

\* s is a subsequence of t
RECURSIVE IsSubSeq(_, _)
IsSubSeq(s, t) ==
    IF s = <<>> THEN TRUE
    ELSE IF t = <<>> THEN FALSE
    ELSE IF Head(s) = Head(t) THEN IsSubSeq(Tail(s), Tail(t))
    ELSE IsSubSeq(s, Tail(t))

\* C10: the rendered sections come in the order Education, Experience,
\* Projects (titles compared case-insensitively), then all remaining
\* sections, and sections of the same class keep their original relative
\* order.
C10_SectionOrder ==
    rd_done =>
        LET r == WithItems(ordered_sections) IN
        /\ \A i, j \in 1..Len(r) : i < j => Rank(r[i].title) <= Rank(r[j].title)
        /\ \A k \in 1..4 :
              IsSubSeq(SelectSeq(r, LAMBDA s : Rank(s.title) = k),
                       SelectSeq(sections, LAMBDA s : Rank(s.title) = k))

\* C10 on the lists whose titles are all different (case-insensitively).
C10_SectionOrderDistinctTitles ==
    (\A i, j \in 1..Len(sections) :
        i # j => Lower(sections[i].title) # Lower(sections[j].title))
    => C10_SectionOrder

\* C10 witness: Projects, Education, Experience were given in that order, each
\* with items, and rendered.
C10_Witness ==
    /\ rd_done
    /\ Len(sections) = 3
    /\ <<sections[1].title, sections[2].title, sections[3].title>>
         = <<"Projects", "Education", "Experience">>
    /\ WithItems(sections) = sections
    /\ <<story[1].text, story[4].text, story[7].text>>
         = <<"EDUCATION", "EXPERIENCE", "PROJECTS">>

(***************************************************************************)
(* C11: sections without items                                             *)
(***************************************************************************)
\* The elements of a kind in the story, in order.
StoryElements(kind) == SelectSeq(story, LAMBDA e : e.el = kind)

\* The number of items of a list of sections.
RECURSIVE CountItems(_)
CountItems(secs) ==
    IF secs = <<>> THEN 0 ELSE Len(Head(secs).items) + CountItems(Tail(secs))

\* The story holds, from index h on, the heading of section s followed by
\* each of its items and the spacer after it.
RenderedAt(s, h) ==
    /\ h + 2 * Len(s.items) <= Len(story)
    /\ story[h].el = "heading"
    /\ story[h].text = Upper(s.title)
    /\ \A k \in 1..Len(s.items) :
          /\ story[h + 2 * k - 1].el = "item"
          /\ story[h + 2 * k - 1].text = s.items[k]
          /\ story[h + 2 * k].el = "spacer"

\* C11: a section whose item list is empty contributes nothing to the
\* rendered document (no title, no item, no spacer), wherever it sits, and
\* every section with items gets its upper-cased title emitted before its
\* items.
C11_EmptySectionsSkipped ==
    rd_done =>
        LET shown == WithItems(ordered_sections) IN
        /\ Len(StoryElements("heading")) = Len(shown)
        /\ \A i \in 1..Len(shown) :
              StoryElements("heading")[i].text = Upper(shown[i].title)
        /\ Len(StoryElements("item")) = CountItems(shown)
        /\ Len(StoryElements("spacer")) = CountItems(shown)
        /\ Len(story) = Len(shown) + 2 * CountItems(shown)
        /\ \A i \in 1..Len(sections) :
              IF sections[i].items = <<>>
              THEN (\A j \in 1..Len(sections) :
                        Upper(sections[j].title) = Upper(sections[i].title)
                            => sections[j].items = <<>>)
                   => \A h \in 1..Len(story) :
                         ~(story[h].el = "heading"
                           /\ story[h].text = Upper(sections[i].title))
              ELSE \E h \in 1..Len(story) : RenderedAt(sections[i], h)

\* C11 witness: a section without items sits between two sections with
\* items, and the document holds the two titles only.
C11_Witness ==
    /\ rd_done
    /\ Len(sections) = 3
    /\ sections[1].items # <<>>
    /\ sections[2].items = <<>>
    /\ sections[3].items # <<>>
    /\ Rank(sections[1].title) = 4
    /\ Rank(sections[2].title) = 1
    /\ Len(StoryElements("heading")) = 2
    /\ Len(story) = 6

(***************************************************************************)
(* C12: the context references of the selected tasks                       *)
(***************************************************************************)
\* C12: in the crew that build_crew returns, every context reference of a
\* task points to a task of the selected order that does not come later than
\* the referencing task; the references to other tasks of the catalogue were
\* dropped.
C12_ContextOnlySelected ==
    \A i \in 1..Len(crew) :
        \A k \in 1..Len(crew[i].context) :
            LET j == IndexOf(crew, crew[i].context[k]) IN
            j > 0 /\ j <= i

\* C12 witness: a crew of two tasks was returned, the second with the first
\* as its context, from a catalogue that holds a third task.
C12_Witness ==
    /\ pc = "kickoff"
    /\ startlog = <<>>
    /\ Len(crew) = 2
    /\ crew[2].context = <<crew[1].name>>
    /\ \E n \in catalogue : IndexOf(crew, n) = 0

(***************************************************************************)
(* SpecPrepare: the workspace of one invocation, for every upload          *)
(***************************************************************************)
\* The declared media types: PDF, plain text, an image, a type without a
\* known extension, and no type.
MediaTypes == {"application/pdf", "text/plain", "image/png",
               "application/x-unknown", ""}

\* What the bytes are: a PDF with text, a PDF whose pages hold no text,
\* UTF-8 text, text that is not valid UTF-8, anything else.
ByteKinds == {"pdf", "pdf-empty", "utf8", "latin1", "garbage"}

\* The file names of an upload ("": none given).
UploadNames == {"cv.pdf", "cv.txt", "cv.png", ""}

Uploads == {NoUpload} \cup [mime : MediaTypes, bytes : ByteKinds, name : UploadNames]

UploadArguments ==
    [resume : Uploads, work_experience : {"", "we"}, env : {"", "env"}]

\* An entry point is called with any upload.
EnterPrepare ==
    /\ pc = "idle"
    /\ \E e \in Entries, a \in UploadArguments :
          /\ entry' = e
          /\ args' = a
          /\ order' = EntryOrder(e)
    /\ tmpdir' = [exists |-> TRUE, files |-> {}]
    /\ pc' = "with"
    /\ UNCHANGED <<exvars, rdvars, ccvars, apivars, bdvars, lgvars, written, tools, catalogue, crew, kovars, outvars>>

InitPrepare == Init

NextPrepare == EnterPrepare \/ PrepareFiles \/ BuildTools

SpecPrepare == InitPrepare /\ [][NextPrepare]_vars

\* Steps 1 and 2 of the entry point have run and the workspace is in use.
FilesPrepared == tmpdir.exists /\ pc \notin {"idle", "with"}

HasUpload == args.resume.bytes # "none"

\* C13: the workspace holds at most two artifacts; the resume-text artifact
\* exists if and only if a resume was uploaded, the work-experience artifact
\* only if the caller provided work-experience text, and no artifact is
\* empty.
C13_ArtifactsOnlyForInputs ==
    FilesPrepared =>
        /\ Cardinality(tmpdir.files) <= 2
        /\ ("resume_text.mdx" \in FileNames(tmpdir.files)) <=> HasUpload
        /\ ("work_experience.mdx" \in FileNames(tmpdir.files))
              => args.work_experience # ""
        /\ \A f \in tmpdir.files : f.content # <<>>

\* C13 for main.run, whose workspace holds no copy of the upload, when no
\* PERSONAL_WRITEUP is set and the upload is not a PDF without text.
C13_RunArtifacts ==
    (entry = "run" /\ args.env = "" /\ args.resume.bytes # "pdf-empty")
        => C13_ArtifactsOnlyForInputs

\* C13 witness: main.run was called with a resume and work-experience text,
\* and its workspace holds the two artifacts.
C13_Witness ==
    /\ entry = "run"
    /\ pc = "prepared"
    /\ args.work_experience = "we"
    /\ HasUpload
    /\ FileNames(tmpdir.files) = {"resume_text.mdx", "work_experience.mdx"}
    /\ \A f \in tmpdir.files : f.content # <<>>

(***************************************************************************)
(* C14, C15: the text extracted from an upload                             *)
(***************************************************************************)
\* The upload is declared neither as PDF nor as plain text, by type or by
\* file name.
Unsupported(up) ==
    /\ up.mime \notin {"application/pdf", "text/plain"}
    /\ up.name \notin {"cv.pdf", "cv.txt"}

\* The text is the note that extraction is not supported.
IsPlaceholder(text) ==
    text # <<>> /\ text[Len(text)] = "; text extraction not supported]"

\* The text holds the piece x.
Mentions(text, x) == x # "" /\ \E i \in 1..Len(text) : text[i] = x

\* The extracted text as the stages get it: the content of resume_text.mdx.
ResumeTextFile == {f \in tmpdir.files : f.name = "resume_text.mdx"}

\* C14: for an upload whose declared type is neither PDF nor plain text (a
\* type without a known extension and a missing type included), extraction
\* does not raise and yields a non-empty placeholder that mentions the
\* declared type or the file name, whatever the bytes are.
C14_UnsupportedTypePlaceholder ==
    (entry \in Entries /\ pc \notin {"idle", "with"}
        /\ HasUpload /\ Unsupported(args.resume)) =>
        /\ error # "PdfReadError"
        /\ FilesPrepared =>
              /\ ResumeTextFile # {}
              /\ \A f \in ResumeTextFile :
                    /\ IsPlaceholder(f.content)
                    /\ \/ Mentions(f.content, args.resume.mime)
                       \/ Mentions(f.content, args.resume.name)

\* C14 for the declared types that have a known extension.
C14_KnownExtensionPlaceholder ==
    GuessExtension(args.resume.mime) # ".pdf" => C14_UnsupportedTypePlaceholder

\* C14 witness: an upload declared as image/png was given to
\* run_tailor_pipeline and the text artifact holds the placeholder naming
\* that type.
C14_Witness ==
    /\ entry = "tailor"
    /\ pc = "prepared"
    /\ args.resume.mime = "image/png"
    /\ args.resume.bytes = "garbage"
    /\ \E f \in ResumeTextFile :
          IsPlaceholder(f.content) /\ Mentions(f.content, "image/png")

\* C14, the part about raising alone: extraction of an upload of an
\* unsupported type never raises.
C14_UnsupportedTypeNeverRaises ==
    (entry \in Entries /\ HasUpload /\ Unsupported(args.resume))
        => error # "PdfReadError"

\* The upload is declared as plain text and not as PDF: by its type, or by
\* its file name where extraction is given the name (main.py:80).
IsTextUpload(up) ==
    /\ up.mime # "application/pdf"
    /\ up.name # "cv.pdf"
    /\ up.mime = "text/plain" \/ (entry = "run" /\ up.name = "cv.txt")

\* C15: in every entry point, the text extracted from an upload declared as
\* text/plain or named *.txt is the UTF-8 decoding of its bytes, or the
\* Latin-1 decoding when they are not valid UTF-8; it is never the
\* placeholder, and extraction does not raise.
C15_PlainTextDecoded ==
    (entry \in Entries /\ pc \notin {"idle", "with"}
        /\ HasUpload /\ IsTextUpload(args.resume)) =>
        /\ error # "PdfReadError"
        /\ FilesPrepared =>
              /\ ResumeTextFile # {}
              /\ \A f \in ResumeTextFile :
                    /\ ~IsPlaceholder(f.content)
                    /\ f.content = IF args.resume.bytes = "utf8"
                                   THEN <<"utf8-text">> ELSE <<"latin1-text">>

\* C15 for main.run alone.
C15_RunPlainTextDecoded == entry = "run" => C15_PlainTextDecoded

\* C15 witness: main.run was given a text/plain upload that is not valid
\* UTF-8 and the text artifact holds its Latin-1 decoding.
C15_Witness ==
    /\ entry = "run"
    /\ pc = "prepared"
    /\ args.resume.mime = "text/plain"
    /\ args.resume.bytes = "latin1"
    /\ \E f \in ResumeTextFile : f.content = <<"latin1-text">>

(***************************************************************************)
(* C16: the file name of the tailored resume                               *)
(***************************************************************************)
\* The payload is a resume object that is valid but for its headline, which
\* may be absent.
IsResumeJsonButHeadline(text) ==
    /\ JsonLoads(text).ok
    /\ LET obj == JsonLoads(text).obj IN
       /\ obj.contact = "object"
       /\ obj.headline \in {"str", "absent"}
       /\ obj.summary = "str"
       /\ obj.sections \in {"list_obj", "list_empty"}

\* The file name of a rendered resume: the headline with "_" for every
\* space and in lower case, or tailored_resume, and .pdf.
ExpectedFilename(headline) ==
    IF headline = <<>> THEN <<"tailored_resume", ".pdf">>
    ELSE [i \in 1..Len(headline) |->
             CASE headline[i] = " " -> "_"
               [] headline[i] = "S" -> "s"
               [] headline[i] = "D" -> "d"
               [] OTHER -> headline[i]] \o <<".pdf">>

\* C16: a run of run_tailor_pipeline whose payload is a resume returns the
\* file name made of the lower-cased headline, "_" for every space, and
\* ".pdf"; when the headline is absent or empty, tailored_resume.pdf.
C16_FilenameFromHeadline ==
    (entry = "tailor" /\ Terminated /\ KickoffReturned
        /\ error # "RenderError"
        /\ IsResumeJsonButHeadline(clean_json)) =>
        /\ pc = "returned"
        /\ result.filename = ExpectedFilename(Headline(clean_json))

\* C16 for the payloads that hold a headline, which may be empty.
C16_FilenameFromPresentHeadline ==
    (JsonLoads(clean_json).ok /\ JsonLoads(clean_json).obj.headline = "str")
        => C16_FilenameFromHeadline

\* C16 witness: a resume with the headline "Sr Dev 2" was returned as
\* sr_dev_2.pdf.
C16_Witness ==
    /\ entry = "tailor"
    /\ pc = "returned"
    /\ Headline(clean_json) = <<"S", "r", " ", "D", "e", "v", " ", "2">>
    /\ result.filename = <<"s", "r", "_", "d", "e", "v", "_", "2", ".pdf">>

\* C16 witness of the empty headline, returned as tailored_resume.pdf.
C16_WitnessEmptyHeadline ==
    /\ entry = "tailor"
    /\ pc = "returned"
    /\ clean_json = Plain("resume-empty-headline")
    /\ result.filename = <<"tailored_resume", ".pdf">>

(***************************************************************************)
(* SpecConcurrent: pipeline invocations that run at the same time          *)
(* (run_tailor.py:562-637, tools/__init__.py:7-30, crew.py:12-70)          *)
(***************************************************************************)
\* The names mkdtemp may give a directory.
TmpNames == 1..MaxInvocations

ArtifactNames == {"resume_text.mdx", "work_experience.mdx"}

\* The file a task with output_file writes, in the working directory.
OutputFileName == "tailored_resume.md"

\* The number of Task objects of a crew.
TasksPerCrew == Len(DefaultOrder)

\* The invocation is inside its with block.
Live(i) == inv_pc[i] \notin {"idle", "exited"}

\* with TemporaryDirectory() as td: mkdtemp creates a directory under a name
\* that does not exist.
InvEnter ==
    /\ \E i \in Invocations, d \in TmpNames \ tmp_dirs :
          /\ inv_pc[i] = "idle"
          /\ inv_dir' = [inv_dir EXCEPT ![i] = d]
          /\ tmp_dirs' = tmp_dirs \cup {d}
          /\ inv_pc' = [inv_pc EXCEPT ![i] = "with"]
    /\ UNCHANGED <<exvars, rdvars, plvars, apivars, bdvars, lgvars, inv_tools, inv_crew, inv_result, tmp_files,
                   cwd_files, objects, output_file, reads, overwritten>>

\* Steps 1 to 3: the artifacts are written into tmpdir and the tools are
\* bound to their paths.
InvPrepare ==
    /\ \E i \in Invocations, names \in SUBSET ArtifactNames :
          /\ inv_pc[i] = "with"
          /\ overwritten' = overwritten \cup
                {<<f.by, i>> : f \in {g \in tmp_files :
                                        /\ g.dir = inv_dir[i]
                                        /\ g.name \in names
                                        /\ g.by # i}}
          /\ tmp_files' =
                {f \in tmp_files : ~(f.dir = inv_dir[i] /\ f.name \in names)}
                \cup {[dir |-> inv_dir[i], name |-> n, by |-> i] : n \in names}
          /\ inv_tools' = [inv_tools EXCEPT ![i] = {<<inv_dir[i], n>> : n \in names}]
          /\ inv_pc' = [inv_pc EXCEPT ![i] = "tooled"]
    /\ UNCHANGED <<exvars, rdvars, plvars, apivars, bdvars, lgvars, inv_dir, inv_crew, inv_result, tmp_dirs,
                   cwd_files, objects, output_file, reads>>

\* Step 4: build_crew makes new Agent, Task and Crew objects.
InvBuildCrew ==
    /\ \E i \in Invocations :
          /\ inv_pc[i] = "tooled"
          /\ inv_crew' = [inv_crew EXCEPT ![i] = (objects + 1)..(objects + TasksPerCrew)]
          /\ inv_pc' = [inv_pc EXCEPT ![i] = "built"]
    /\ objects' = objects + TasksPerCrew
    /\ UNCHANGED <<exvars, rdvars, plvars, apivars, bdvars, lgvars, inv_dir, inv_tools, inv_result, tmp_dirs,
                   tmp_files, cwd_files, output_file, reads, overwritten>>

\* The writer of the file at a path, 0 when there is no such file.
WriterOf(path) ==
    IF \E f \in tmp_files : f.dir = path[1] /\ f.name = path[2]
    THEN (CHOOSE f \in tmp_files : f.dir = path[1] /\ f.name = path[2]).by
    ELSE 0

\* The invocation whose crew holds a Task object.
CrewOf(o) ==
    IF \E j \in Invocations : o \in inv_crew[j]
    THEN CHOOSE j \in Invocations : o \in inv_crew[j]
    ELSE 0

\* The last Task object of the crew of an invocation.
LastTask(i) == CHOOSE o \in inv_crew[i] : \A q \in inv_crew[i] : q <= o

\* Step 5: kickoff.  The workers read the artifacts through the tools, the
\* last task writes its output_file when it declares one, and the result is
\* the output of the last Task object of the crew.
InvKickoff ==
    /\ \E i \in Invocations :
          /\ inv_pc[i] = "built"
          /\ reads' = reads \cup {[by |-> i, of |-> WriterOf(p)] : p \in inv_tools[i]}
          /\ IF output_file
             THEN /\ overwritten' = overwritten \cup
                        {<<f.by, i>> : f \in {g \in cwd_files : g.by # i /\ Live(g.by)}}
                  /\ cwd_files' = {[name |-> OutputFileName, by |-> i]}
             ELSE UNCHANGED <<overwritten, cwd_files>>
          /\ inv_result' = [inv_result EXCEPT ![i] = CrewOf(LastTask(i))]
          /\ inv_pc' = [inv_pc EXCEPT ![i] = "kicked"]
    /\ UNCHANGED <<exvars, rdvars, plvars, apivars, bdvars, lgvars, inv_dir, inv_tools, inv_crew, tmp_dirs,
                   tmp_files, objects, output_file>>

\* The with block is left, by return or by an exception: the directory of
\* the invocation and all it holds are removed.
InvExit ==
    /\ \E i \in Invocations :
          /\ Live(i)
          /\ tmp_dirs' = tmp_dirs \ {inv_dir[i]}
          /\ tmp_files' = {f \in tmp_files : f.dir # inv_dir[i]}
          /\ inv_pc' = [inv_pc EXCEPT ![i] = "exited"]
    /\ UNCHANGED <<exvars, rdvars, plvars, apivars, bdvars, lgvars, inv_dir, inv_tools, inv_crew, inv_result,
                   cwd_files, objects, output_file, reads, overwritten>>

InitConcurrent ==
    /\ ExtractIdle /\ RenderIdle /\ PipelineIdle /\ ConcurrentIdle
    /\ output_file \in BOOLEAN
    /\ ApiIdle /\ BuildIdle /\ LoginIdle

NextConcurrent == InvEnter \/ InvPrepare \/ InvBuildCrew \/ InvKickoff \/ InvExit

SpecConcurrent == InitConcurrent /\ [][NextConcurrent]_vars

\* The invocation still uses its artifacts: its tools are built and its
\* crew has not returned.
UsesArtifacts(i) == inv_pc[i] \in {"tooled", "built"}

\* C17: for every interleaving of concurrent invocations, each has its own
\* workspace directory, its own Task objects and its own result; none reads
\* or overwrites a file of another, and the cleanup of one removes no
\* artifact that another still uses.
C17_InvocationsIsolated ==
    /\ \A i, j \in Invocations :
          (i # j /\ Live(i) /\ Live(j)) => inv_dir[i] # inv_dir[j]
    /\ \A i, j \in Invocations : i # j => inv_crew[i] \cap inv_crew[j] = {}
    /\ \A i \in Invocations : inv_result[i] \in {0, i}
    /\ \A r \in reads : r.of = r.by
    /\ overwritten = {}
    /\ \A i \in Invocations :
          UsesArtifacts(i) => \A p \in inv_tools[i] : WriterOf(p) = i

\* C17 for a tasks.yaml in which no task declares output_file.
C17_IsolatedWithoutOutputFile == ~output_file => C17_InvocationsIsolated

\* C17 witness: two invocations are inside kickoff-ready crews at the same
\* time, each with both artifacts in its own directory.
C17_Witness ==
    /\ \A i \in Invocations : inv_pc[i] = "built"
    /\ \A i \in Invocations : Cardinality(inv_tools[i]) = 2
    /\ Cardinality(tmp_files) = 2 * MaxInvocations
    /\ inv_dir[1] # inv_dir[2]

(***************************************************************************)
(* The HTTP API (api.py:66-272) with its authentication (auth.py:16-76)    *)
(* and the user collection (db.py:12-61).  Each request is one action: the *)
(* dependencies of the route are resolved first and an HTTPException they  *)
(* raise is the response, the endpoint's body never runs.                  *)
(***************************************************************************)

\* The clock stops at MaxTime; a token lives TokenLife ticks (24 hours).
MaxTime == 3
TokenLife == 2

\* What Google's verification yields for the posted token (auth.py:60-76):
\* an account, whose email may differ from one login to the next, or a
\* ValueError.
GoogleTokens ==
    { [ok |-> TRUE, google_sub |-> "g1", email |-> "a@x"],
      [ok |-> TRUE, google_sub |-> "g1", email |-> "a2@x"],
      [ok |-> TRUE, google_sub |-> "g2", email |-> "b@x"],
      [ok |-> FALSE, google_sub |-> "", email |-> ""] }

\* A token that does not carry the subject.
CreateAccessTokenNoSubject(user_id, now) ==
    [kind |-> "jwt", sub |-> 0, exp |-> now + TokenLife]

\* auth.py:16-21: the token carries the subject and expires 24 hours later.
create_access_token(user_id, now) ==
    [kind |-> "jwt", sub |-> user_id, exp |-> now + TokenLife]

\* The verification without the test of the subject.
VerifyTokenAnySubject(token, now) ==
    IF token.kind # "jwt" \/ token.exp <= now
    THEN 0
    ELSE IF token.sub = 0 THEN -1 ELSE token.sub

\* auth.py:23-31: jwt.decode raises JWTError for a token that does not
\* decode, has a wrong signature or is expired; a payload without subject is
\* refused too.  The value is the subject, or 0 for the 401.
verify_token(token, now) ==
    IF token.kind # "jwt" \/ token.exp <= now
    THEN 0
    ELSE IF token.sub = 0 THEN 0 ELSE token.sub

\* `not token` (auth.py:39, 50): no cookie, or an empty one.
NotToken(token) == token.kind \in {"none", "empty"}

\* auth.py:35-43: the user id, or 0 for the 401.
get_current_user_id(token, now) ==
    IF NotToken(token) THEN 0 ELSE verify_token(token, now)

\* auth.py:46-57: None (-1) without a cookie, else as above.
optional_get_current_user_id(token, now) ==
    IF NotToken(token) THEN -1 ELSE verify_token(token, now)

\* The cookies a request can carry: the one of the client's jar, none, an
\* empty one, one that does not decode, and a signed token without subject.
PresentedCookies ==
    { cookie, NoToken,
      [kind |-> "empty", sub |-> 0, exp |-> 0],
      [kind |-> "garbage", sub |-> 0, exp |-> 0],
      [kind |-> "jwt", sub |-> 0, exp |-> MaxTime + 1] }

\* db.users_set.find_one (api.py:71, 115).
FindBySub(google_sub) == { u \in users : u.google_sub = google_sub }
FindById(id) == { u \in users : u.id = id }

\* The _id of an inserted record.
NewId == Cardinality(users) + 1

Response(route, cred, st, detail) ==
    [route |-> route, cred |-> cred, status |-> st, detail |-> detail,
     body |-> NoBody, set_cookie |-> NoToken, ran_pipeline |-> FALSE,
     doc_access |-> FALSE, at |-> api_now, resume_id |-> 0]

\* api.py:66-108, POST /auth/google.
google_login ==
    /\ \E g \in GoogleTokens :
        IF ~g.ok
        THEN /\ resp' = Response("POST /auth/google", NoToken, 401, "token not valid")
             /\ UNCHANGED <<users, cookie, session>>
        ELSE LET existing == FindBySub(g.google_sub)
                 user_id == IF existing # {}
                            THEN (CHOOSE u \in existing : TRUE).id
                            ELSE NewId
                 token == create_access_token(user_id, api_now)
             IN  /\ users' =
                       IF existing # {}
                       THEN { IF u.google_sub = g.google_sub
                              THEN [u EXCEPT !.last_login_at = api_now]
                              ELSE u : u \in users }
                       ELSE users \cup
                            { [id |-> user_id, google_sub |-> g.google_sub,
                               email |-> g.email, created_at |-> api_now,
                               last_login_at |-> api_now] }
                 /\ cookie' = token
                 /\ session' = [google_sub |-> g.google_sub, email |-> g.email,
                                token |-> token]
                 /\ resp' = [Response("POST /auth/google", NoToken, 200, "")
                               EXCEPT !.set_cookie = token,
                                      !.body = [kind |-> "login", id |-> user_id,
                                                email |-> g.email, created_at |-> 0,
                                                last_login_at |-> 0]]
    /\ UNCHANGED <<api_now, tailored_resumes, exvars, rdvars, plvars, ccvars, bdvars, lgvars>>

\* api.py:110-124, GET /auth/me.
get_me ==
    /\ \E c \in PresentedCookies :
          LET user_id == optional_get_current_user_id(c, api_now)
          IN  resp' =
                IF user_id = 0
                THEN Response("GET /auth/me", c, 401, "Unauthorized")
                ELSE IF user_id = -1
                THEN Response("GET /auth/me", c, 200, "")
                ELSE IF FindById(user_id) = {}
                THEN Response("GET /auth/me", c, 404, "Not Found")
                ELSE LET user == CHOOSE u \in FindById(user_id) : TRUE
                     IN  [Response("GET /auth/me", c, 200, "")
                            EXCEPT !.body = [kind |-> "user", id |-> user.id,
                                             email |-> user.email,
                                             created_at |-> user.created_at,
                                             last_login_at |-> user.last_login_at]]
    /\ UNCHANGED <<api_now, users, cookie, session, tailored_resumes, exvars, rdvars, plvars, ccvars, bdvars, lgvars>>

\* api.py:126-135, POST /auth/logout: the cookie is deleted.
logout ==
    /\ resp' = [Response("POST /auth/logout", cookie, 200, "")
                  EXCEPT !.body.kind = "ok"]
    /\ cookie' = NoToken
    /\ session' = NoSession
    /\ UNCHANGED <<api_now, users, tailored_resumes, exvars, rdvars, plvars, ccvars, bdvars, lgvars>>

\* The body of a resume route that reads or writes
\* db.tailored_resumes_collection (api.py:144, 171, 225), an attribute that
\* Database (db.py:12-16) does not have: the AttributeError is a 500.
CollectionAccess(r) ==
    [r EXCEPT !.status = 500, !.detail = "Internal Server Error",
              !.doc_access = TRUE]

\* api.py:139-159, GET /tailored-resumes.
list_tailored_resumes ==
    /\ \E c \in PresentedCookies :
          LET user_id == get_current_user_id(c, api_now)
          IN  resp' =
                IF user_id = 0
                THEN Response("GET /tailored-resumes", c, 401, "Unauthorized")
                ELSE CollectionAccess(Response("GET /tailored-resumes", c, 200, ""))
    /\ UNCHANGED <<api_now, users, cookie, session, tailored_resumes, exvars, rdvars, plvars, ccvars, bdvars, lgvars>>

\* The resume ids of a request: -1 is not the text of an ObjectId.
ResumeIds == {-1, 1, 2}

\* ObjectId.is_valid (api.py:168).
ObjectIdIsValid(resume_id) == resume_id > 0

\* api.py:162-188, GET /tailored-resumes/{resume_id}/pdf.
get_tailored_resume_pdf ==
    /\ \E c \in PresentedCookies, resume_id \in ResumeIds :
          LET user_id == get_current_user_id(c, api_now)
              route == "GET /tailored-resumes/{resume_id}/pdf"
              r(st, detail) == [Response(route, c, st, detail)
                                  EXCEPT !.resume_id = resume_id]
          IN  resp' =
                IF user_id = 0
                THEN r(401, "Unauthorized")
                ELSE IF ~ObjectIdIsValid(resume_id)
                THEN r(400, "Invalid resume ID")
                ELSE CollectionAccess(r(200, ""))
    /\ UNCHANGED <<api_now, users, cookie, session, tailored_resumes, exvars, rdvars, plvars, ccvars, bdvars, lgvars>>

\* api.py:192-238, POST /tailor: the pipeline runs, and its result is
\* stored when it returns one.
tailor_endpoint ==
    /\ \E c \in PresentedCookies, pipeline_ok \in BOOLEAN :
          LET user_id == get_current_user_id(c, api_now)
              ran == [Response("POST /tailor", c, 200, "")
                        EXCEPT !.ran_pipeline = TRUE]
          IN  resp' =
                IF user_id = 0
                THEN Response("POST /tailor", c, 401, "Unauthorized")
                ELSE IF ~pipeline_ok
                THEN [ran EXCEPT !.status = 500, !.detail = "Internal Server Error"]
                ELSE CollectionAccess(ran)
    /\ UNCHANGED <<api_now, users, cookie, session, tailored_resumes, exvars, rdvars, plvars, ccvars, bdvars, lgvars>>

\* api.py:242-272, POST /workshop.
workshop_endpoint ==
    /\ \E c \in PresentedCookies, pipeline_ok \in BOOLEAN :
          LET user_id == get_current_user_id(c, api_now)
              ran == [Response("POST /workshop", c, 200, "")
                        EXCEPT !.ran_pipeline = TRUE]
          IN  resp' =
                IF user_id = 0
                THEN Response("POST /workshop", c, 401, "Unauthorized")
                ELSE IF ~pipeline_ok
                THEN [ran EXCEPT !.status = 500, !.detail = "Internal Server Error"]
                ELSE [ran EXCEPT !.body.kind = "workshop"]
    /\ UNCHANGED <<api_now, users, cookie, session, tailored_resumes, exvars, rdvars, plvars, ccvars, bdvars, lgvars>>

\* Time passes.
Tick ==
    /\ api_now < MaxTime
    /\ api_now' = api_now + 1
    /\ UNCHANGED <<users, cookie, session, resp, tailored_resumes, exvars, rdvars, plvars, ccvars, bdvars, lgvars>>

InitApi == Init

NextApi ==
    \/ google_login
    \/ get_me
    \/ logout
    \/ list_tailored_resumes
    \/ get_tailored_resume_pdf
    \/ tailor_endpoint
    \/ workshop_endpoint
    \/ Tick

SpecApi == InitApi /\ [][NextApi]_vars

(***************************************************************************)
(* Claims about the API.                                                   *)
(***************************************************************************)

ResumeRoutes ==
    {"GET /tailored-resumes", "GET /tailored-resumes/{resume_id}/pdf",
     "POST /tailor", "POST /workshop"}

\* The request carried no cookie, an invalid token or one without subject.
Unauthenticated(r) ==
    \/ r.cred.kind \in {"none", "empty", "garbage"}
    \/ r.cred.kind = "jwt" /\ (r.cred.sub = 0 \/ r.cred.exp <= r.at)

\* C18: a request to a resume route without access_token cookie, or with a
\* cookie whose token is invalid or has no subject, is answered 401, and
\* neither the pipeline has run nor a document was read or written for it.
C18_ResumeRoutesRequireAuth ==
    (resp.route \in ResumeRoutes /\ Unauthenticated(resp))
        => /\ resp.status = 401
           /\ ~resp.ran_pipeline
           /\ ~resp.doc_access

\* C18: each of the refused requests happens: a tailor request whose token
\* has no subject is answered 401.
C18_Witness ==
    /\ resp.route = "POST /tailor"
    /\ resp.cred.kind = "jwt" /\ resp.cred.sub = 0
    /\ resp.status = 401

\* C18: a tailor request without cookie is answered 401.
C18_WitnessNoCookie ==
    /\ resp.route = "POST /tailor"
    /\ resp.cred.kind = "none"
    /\ resp.status = 401

\* C18: the pipeline runs for an authenticated request.
C18_WitnessAuthenticated ==
    /\ resp.route \in ResumeRoutes
    /\ ~Unauthenticated(resp)
    /\ resp.ran_pipeline

\* C19: GET /auth/me sent without access_token cookie is answered with
\* status 404 and the detail "Not Found".
C19_MeWithoutCookieNotFound ==
    (resp.route = "GET /auth/me" /\ resp.cred.kind = "none")
        => /\ resp.status = 404
           /\ resp.detail = "Not Found"

\* C19: what the route answers without cookie: 200 with the body null.
C19_MeWithoutCookieNull ==
    (resp.route = "GET /auth/me" /\ resp.cred.kind = "none")
        => /\ resp.status = 200
           /\ resp.body = NoBody

\* C19: GET /auth/me was requested without cookie and before any login.
C19_Witness ==
    /\ resp.route = "GET /auth/me"
    /\ resp.cred.kind = "none"
    /\ users = {}

\* C20: the response of a successful POST /auth/google sets the
\* access_token cookie, whose subject is the id of the user record of the
\* Google account that logged in; and GET /auth/me sent with that cookie
\* before its expiry and before a logout is answered 200 with the id, email,
\* created_at and last_login_at of that record.
C20_LoginThenMe ==
    /\ (resp.route = "POST /auth/google" /\ resp.status = 200)
          => /\ resp.set_cookie.kind = "jwt"
             /\ cookie = resp.set_cookie
             /\ resp.body.id = resp.set_cookie.sub
             /\ \E u \in users :
                   /\ u.id = resp.set_cookie.sub
                   /\ u.google_sub = session.google_sub
                   /\ u.last_login_at = resp.at
             /\ \A u, v \in users : u.google_sub = v.google_sub => u = v
    /\ (/\ resp.route = "GET /auth/me"
        /\ session.token.kind = "jwt"
        /\ resp.cred = session.token
        /\ resp.at < session.token.exp)
          => /\ resp.status = 200
             /\ \E u \in users :
                   /\ u.google_sub = session.google_sub
                   /\ resp.body = [kind |-> "user", id |-> u.id,
                                   email |-> u.email,
                                   created_at |-> u.created_at,
                                   last_login_at |-> u.last_login_at]
                   /\ u.id = session.token.sub

\* C20: GET /auth/me was answered for the cookie of a login that found the
\* record of an earlier login, some time after it.
C20_Witness ==
    /\ resp.route = "GET /auth/me"
    /\ session.token.kind = "jwt"
    /\ resp.cred = session.token
    /\ resp.status = 200
    /\ resp.at > resp.body.last_login_at
    /\ resp.body.last_login_at > resp.body.created_at
    /\ Cardinality(users) = 2

\* C20: the email of the answer is the one of the user record, which is the
\* one of the first login of the Google account.
C20_WitnessStoredEmail ==
    /\ resp.route = "GET /auth/me"
    /\ resp.cred = session.token
    /\ resp.status = 200
    /\ resp.body.email # session.email

(***************************************************************************)
(* C23: every section with items is rendered exactly once                  *)
(***************************************************************************)
\* How often a section stands in a list.
Occurrences(s, secs) == Len(SelectSeq(secs, LAMBDA x : x = s))

\* C23: for every list of sections, also one with two sections of the same
\* title or two equal sections, each input section with items is rendered
\* exactly once: the ordered list holds every such section as often as the
\* input does, and the document holds one heading per such input section
\* and all their items.
C23_EachSectionOnce ==
    rd_done =>
        /\ \A i \in 1..Len(sections) :
              sections[i].items # <<>>
                  => Occurrences(sections[i], ordered_sections)
                       = Occurrences(sections[i], sections)
        /\ Len(StoryElements("heading")) = Len(WithItems(sections))
        /\ Len(StoryElements("item")) = CountItems(WithItems(sections))

\* C23 on the lists whose sections differ pairwise in title or items.
C23_EachDistinctSectionOnce ==
    (\A i, j \in 1..Len(sections) : i # j => sections[i] # sections[j])
        => C23_EachSectionOnce

\* C23 witness: two sections of the same title with different items and a
\* third one were given, and all three are rendered.
C23_Witness ==
    /\ rd_done
    /\ Len(sections) = 3
    /\ sections[1].title = sections[2].title
    /\ sections[1].items # <<>> /\ sections[2].items # <<>>
    /\ sections[1].items # sections[2].items
    /\ sections[3].items # <<>>
    /\ Len(StoryElements("heading")) = 3

\* C23 witness: two equal sections with items were given and rendered.
C23_WitnessEqualSections ==
    /\ rd_done
    /\ Len(sections) = 2
    /\ sections[1] = sections[2]
    /\ sections[1].items # <<>>

(***************************************************************************)
(* SpecBuild: build_crew (crew.py:30-60) on every agents.yaml and          *)
(* tasks.yaml of at most two agents and two tasks, each declaring at most  *)
(* MaxDeclared tool or context names, with every tool set build_tools      *)
(* returns                                                                 *)
(***************************************************************************)
MaxDeclared == 2

\* The lists of at most MaxDeclared names of a set, in declared order.
NameLists(S) == UNION {[1..k -> S] : k \in 0..MaxDeclared}

\* agents.yaml: an agent that is not defined declares nothing.
AgentConfigs ==
    {c \in [keys : SUBSET AgentNames,
            tools : [AgentNames -> NameLists(DeclaredToolNames)]] :
        \A a \in AgentNames \ c.keys : c.tools[a] = <<>>}

\* tasks.yaml: each task names its agent and its context.
TaskConfigs ==
    {c \in [keys : SUBSET TaskNames,
            agent : [TaskNames -> AgentNames],
            context : [TaskNames -> NameLists(DeclaredContextNames)]] :
        \A t \in TaskNames \ c.keys :
            c.agent[t] = "researcher" /\ c.context[t] = <<>>}

\* The tool sets of build_tools (tools/__init__.py:17-30) without and with a
\* resume text file.
ToolSets ==
    {build_tools({}),
     build_tools({[name |-> "resume_text.mdx", content |-> <<"pdf-text">>]})}

\* The yaml files are loaded (crew.py:27-28) and the tools handed over
\* (line 30).
LoadYaml ==
    /\ bd_pc = "idle"
    /\ agents_cfg' \in AgentConfigs
    /\ tasks_cfg' \in TaskConfigs
    /\ tool_instances' \in ToolSets
    /\ bd_pc' = "loaded"
    /\ UNCHANGED <<agents, all_tasks, exvars, rdvars, plvars, ccvars, apivars, lgvars>>

\* line 36: the declared tools that were built, in declared order.
AgentTools(cfg, tls, a) == SelectSeq(cfg.tools[a], LAMBDA t : t \in tls)

\* line 60: the declared context names that are tasks of tasks.yaml.
TaskContext(cfg, t) == SelectSeq(cfg.context[t], LAMBDA c : c \in cfg.keys)

\* lines 33-60: the agents are built, then the tasks, each looking its agent
\* up by name (line 51, a KeyError for a name agents.yaml does not hold),
\* then the contexts are wired.
CallBuildCrew ==
    /\ bd_pc = "loaded"
    /\ agents' = [a \in AgentNames |->
                    IF a \in agents_cfg.keys
                    THEN AgentTools(agents_cfg, tool_instances, a) ELSE <<>>]
    /\ IF \E t \in tasks_cfg.keys : tasks_cfg.agent[t] \notin agents_cfg.keys
       THEN /\ bd_pc' = "raised"
            /\ UNCHANGED all_tasks
       ELSE /\ bd_pc' = "built"
            /\ all_tasks' = [t \in TaskNames |->
                               IF t \in tasks_cfg.keys
                               THEN TaskContext(tasks_cfg, t) ELSE <<>>]
    /\ UNCHANGED <<agents_cfg, tasks_cfg, tool_instances, exvars, rdvars, plvars,
                   ccvars, apivars, lgvars>>

InitBuild == Init

NextBuild == LoadYaml \/ CallBuildCrew

SpecBuild == InitBuild /\ [][NextBuild]_vars

\* The names of a list that are in a set, in the order of the list.
Filtered(list, S) == SelectSeq(list, LAMBDA x : x \in S)

\* C22: build_crew never fails because of a name in an agent or a task
\* definition that cannot be resolved; each agent is bound to exactly its
\* declared tools that are in the tool set and each task's context is exactly
\* its declared context names that are in tasks.yaml, in declared order.
C22_UnresolvableNamesDropped ==
    bd_pc \in {"built", "raised"} =>
        /\ bd_pc = "built"
        /\ \A a \in agents_cfg.keys :
              agents[a] = Filtered(agents_cfg.tools[a], tool_instances)
        /\ \A t \in tasks_cfg.keys :
              all_tasks[t] = Filtered(tasks_cfg.context[t], tasks_cfg.keys)

\* C22 without the failure: when build_crew returns, the bound tools and the
\* wired contexts are the declared names that resolve, and it returns
\* whenever the agent of every task is defined.
C22_ToolsAndContextFiltered ==
    /\ bd_pc = "built" =>
        /\ \A a \in agents_cfg.keys :
              agents[a] = Filtered(agents_cfg.tools[a], tool_instances)
        /\ \A t \in tasks_cfg.keys :
              all_tasks[t] = Filtered(tasks_cfg.context[t], tasks_cfg.keys)
    /\ bd_pc = "raised" =>
          \E t \in tasks_cfg.keys : tasks_cfg.agent[t] \notin agents_cfg.keys

\* C22 witness: an agent declares a tool that was not built and a task a
\* context that is not in tasks.yaml, both next to a name that resolves, and
\* build_crew returned.
C22_Witness ==
    /\ bd_pc = "built"
    /\ agents_cfg.tools["researcher"] = <<"web_rag", "read_resume">>
    /\ agents["researcher"] = <<"read_resume">>
    /\ "profile_task" \in tasks_cfg.keys
    /\ tasks_cfg.context["profile_task"] = <<"ghost_task", "research_task">>
    /\ all_tasks["profile_task"] = <<"research_task">>

\* C22 witness: a task names an agent that agents.yaml does not define.
C22_WitnessUnknownAgent ==
    /\ bd_pc = "raised"
    /\ \E t \in tasks_cfg.keys : tasks_cfg.agent[t] \notin agents_cfg.keys

(***************************************************************************)
(* C21, C25: the stored tailored resumes                                   *)
(***************************************************************************)
\* The user the request was authenticated as, 0 when it was refused.
Caller(r) == get_current_user_id(r.cred, r.at)

\* The documents of a user.
ResumesOf(user_id) == { d \in tailored_resumes : d.user_id = user_id }

\* C21: a /tailor call of an authenticated user whose pipeline returned the
\* PDF is answered ok with the id of the stored document; every later listing
\* by that user is answered with the user's documents, that id among them,
\* and fetching that id as the same user is answered with the stored PDF.
C21_CreatedResumeListed ==
    /\ (resp.route = "POST /tailor" /\ Caller(resp) # 0 /\ resp.doc_access)
          => /\ resp.status = 200
             /\ \E d \in ResumesOf(Caller(resp)) : d.id = resp.body.id
    /\ (resp.route = "GET /tailored-resumes" /\ Caller(resp) # 0)
          => resp.status = 200
    /\ (/\ resp.route = "GET /tailored-resumes/{resume_id}/pdf"
        /\ \E d \in ResumesOf(Caller(resp)) : d.id = resp.resume_id)
          => resp.status = 200

\* C21: the listing of an authenticated user was answered.
C21_Witness ==
    /\ resp.route = "GET /tailored-resumes"
    /\ Caller(resp) # 0
    /\ resp.doc_access

\* C21: the /tailor call of an authenticated user got its PDF from the
\* pipeline and went on to store it.
C21_WitnessCreate ==
    /\ resp.route = "POST /tailor"
    /\ Caller(resp) # 0
    /\ resp.ran_pipeline
    /\ resp.doc_access

\* C21: no request changes the tailored-resume collection, and every
\* request of an authenticated user that reaches it is answered 500.
C21_CollectionNeverReached ==
    /\ tailored_resumes = {}
    /\ resp.doc_access => resp.status = 500

\* C25: the PDF endpoint returns a document only to the user it is stored
\* for: a request for an id that is not an ObjectId is answered 400, one for
\* an id that is not a document of the caller 404, and no answer holds the
\* PDF or the file name of a document of another user.
C25_OnlyOwnerGetsPdf ==
    (resp.route = "GET /tailored-resumes/{resume_id}/pdf" /\ Caller(resp) # 0)
        => IF ~ObjectIdIsValid(resp.resume_id)
           THEN resp.status = 400
           ELSE IF ~\E d \in ResumesOf(Caller(resp)) : d.id = resp.resume_id
           THEN resp.status = 404 /\ resp.body = NoBody
           ELSE resp.status = 200

\* C25 without the 404: an invalid id is answered 400 and no answer of the
\* endpoint holds a document.
C25_InvalidIdAndNoLeak ==
    resp.route = "GET /tailored-resumes/{resume_id}/pdf"
        => /\ (Caller(resp) # 0 /\ ~ObjectIdIsValid(resp.resume_id))
                 => (resp.status = 400 /\ resp.detail = "Invalid resume ID")
           /\ resp.body = NoBody
           /\ resp.status # 200

\* C25 witness: an authenticated user asked for a valid id that is not a
\* document of that user, while another user exists.
C25_Witness ==
    /\ resp.route = "GET /tailored-resumes/{resume_id}/pdf"
    /\ Caller(resp) # 0
    /\ ObjectIdIsValid(resp.resume_id)
    /\ Cardinality(users) = 2

\* C25 witness: an authenticated user asked for an invalid id.
C25_WitnessInvalidId ==
    /\ resp.route = "GET /tailored-resumes/{resume_id}/pdf"
    /\ Caller(resp) # 0
    /\ resp.resume_id = -1
    /\ resp.status = 400

(***************************************************************************)
(* SpecLogin: overlapping POST /auth/google requests (api.py:66-108).  The *)
(* handler is a coroutine: another request may run while it awaits         *)
(* find_one (line 71) and before its update_one or insert_one (lines       *)
(* 75-90) reaches the database.                                            *)
(***************************************************************************)
\* The first record of a Google account, as find_one returns it; 0 is None.
FindOne(google_sub) ==
    IF FindBySub(google_sub) = {} THEN 0
    ELSE CHOOSE id \in {u.id : u \in FindBySub(google_sub)} :
            \A u \in FindBySub(google_sub) : id <= u.id

\* Lines 68-71: the Google token is verified and the user looked up.
LoginFind(r) ==
    /\ logins[r].pc \in {"idle", "done"}
    /\ \E g \in GoogleTokens :
          logins' = [logins EXCEPT ![r] =
                       IF ~g.ok
                       THEN [NoLogin EXCEPT !.pc = "done", !.status = 401]
                       ELSE [NoLogin EXCEPT !.pc = "found",
                                            !.user_info = g,
                                            !.existing = FindOne(g.google_sub)]]
    /\ UNCHANGED <<unique_index, apivars, exvars, rdvars, plvars, ccvars, bdvars>>

\* Lines 73-108: the record found is updated, or a record is inserted, which
\* the unique index on google_sub (db.py:54) refuses with DuplicateKeyError
\* when the account has a record by now; then the token is made and the
\* cookie set.
LoginWrite(r) ==
    /\ logins[r].pc = "found"
    /\ LET l == logins[r]
           g == l.user_info
           user_id == IF l.existing # 0 THEN l.existing ELSE NewId
           done == [l EXCEPT !.pc = "done", !.status = 200, !.user_id = user_id,
                             !.token = create_access_token(user_id, api_now)]
       IN  IF l.existing # 0
           THEN /\ users' = { IF u.id = FindOne(g.google_sub)
                              THEN [u EXCEPT !.last_login_at = api_now]
                              ELSE u : u \in users }
                /\ logins' = [logins EXCEPT ![r] = done]
           ELSE IF unique_index /\ FindBySub(g.google_sub) # {}
           THEN /\ users' = users
                /\ logins' = [logins EXCEPT ![r] =
                                [l EXCEPT !.pc = "done", !.status = 500]]
           ELSE /\ users' = users \cup
                              { [id |-> user_id, google_sub |-> g.google_sub,
                                 email |-> g.email, created_at |-> api_now,
                                 last_login_at |-> api_now] }
                /\ logins' = [logins EXCEPT ![r] = done]
    /\ UNCHANGED <<unique_index, api_now, cookie, session, resp, tailored_resumes,
                   exvars, rdvars, plvars, ccvars, bdvars>>

LoginFindAny == \E r \in Logins : LoginFind(r)

LoginWriteAny == \E r \in Logins : LoginWrite(r)

\* create_indexes (db.py:51-61) swallows a failure of create_index: the
\* server runs with or without the unique index.
InitLogin ==
    /\ ExtractIdle /\ RenderIdle /\ PipelineIdle /\ ConcurrentIdle
    /\ output_file = FALSE
    /\ ApiIdle /\ BuildIdle
    /\ logins = [r \in Logins |-> NoLogin]
    /\ unique_index \in BOOLEAN

NextLogin == LoginFindAny \/ LoginWriteAny

SpecLogin == InitLogin /\ [][NextLogin]_vars

\* C24: after any interleaving of POST /auth/google requests the user store
\* holds at most one record per google_sub, every login that completes
\* returns the id of that record, and no login with a valid Google token ends
\* in an unhandled error.
C24_OneUserPerAccount ==
    /\ \A u, v \in users : u.google_sub = v.google_sub => u = v
    /\ \A r \in Logins :
          (logins[r].pc = "done" /\ logins[r].user_info.ok)
              => /\ logins[r].status = 200
                 /\ \E u \in users : /\ u.google_sub = logins[r].user_info.google_sub
                                     /\ u.id = logins[r].user_id
                                     /\ logins[r].token.sub = u.id

\* C24 with the unique index: at most one record per google_sub, and every
\* login answered 200 returns the id of that record.
C24_UniqueIndexKeepsOneRecord ==
    unique_index =>
        /\ \A u, v \in users : u.google_sub = v.google_sub => u = v
        /\ \A r \in Logins :
              logins[r].status = 200
                  => \E u \in users : /\ u.google_sub = logins[r].user_info.google_sub
                                      /\ u.id = logins[r].user_id

\* C24 for logins that do not overlap: while no other request is between
\* its lookup and its write, a login that completes is answered 200.
C24_SequentialLogins ==
    [][\A r \in Logins :
          (/\ logins[r].pc = "found"
           /\ logins'[r].pc = "done"
           /\ logins[r].existing = FindOne(logins[r].user_info.google_sub))
              => logins'[r].status = 200]_vars

\* C24 witness: two first logins of the same Google account overlapped: both
\* looked the account up before either wrote, and both have completed.
C24_Witness ==
    /\ \A r \in Logins :
          /\ logins[r].pc = "done"
          /\ logins[r].user_info.google_sub = "g1"
          /\ logins[r].existing = 0
    /\ users # {}

\* C24 witness: a second login found the record of the first and completed.
C24_WitnessSecondLogin ==
    \E r \in Logins :
        /\ logins[r].pc = "done"
        /\ logins[r].existing # 0
        /\ logins[r].status = 200

\* C24 with the unique index: every login with a valid Google token that
\* completes is answered 200.
C24_NoUnhandledErrorWithIndex ==
    unique_index =>
        \A r \in Logins :
            (logins[r].pc = "done" /\ logins[r].user_info.ok)
                => logins[r].status = 200

(***************************************************************************)
(* SpecTailor: POST /tailor (api.py:192-238) with the pipeline it runs.    *)
(* run_tailor_pipeline is called synchronously inside the coroutine, so no *)
(* other request is served while it runs.                                  *)
(***************************************************************************)
\* The payloads: with or without resume (a PDF), with or without work
\* experience.
TailorPayloads ==
    {a \in Arguments :
        /\ a.env = ""
        /\ a.resume \in {NoUpload,
                         [mime |-> "application/pdf", bytes |-> "pdf", name |-> "cv.pdf"]}}

\* A /tailor request whose pipeline has not returned yet.
TailorPending == resp.route = "POST /tailor" /\ resp.status = 0

\* A user logs in before the request.
TailorLogin ==
    /\ pc = "idle"
    /\ google_login

\* Lines 193-210: the dependency, then the call of run_tailor_pipeline up to
\* its with block.
TailorRequest ==
    /\ pc = "idle"
    /\ \E c \in PresentedCookies, a \in TailorPayloads :
          IF get_current_user_id(c, api_now) = 0
          THEN /\ resp' = Response("POST /tailor", c, 401, "Unauthorized")
               /\ UNCHANGED <<pc, entry, args, order, tmpdir>>
          ELSE /\ resp' = [Response("POST /tailor", c, 0, "")
                             EXCEPT !.ran_pipeline = TRUE]
               /\ entry' = "tailor"
               /\ args' = a
               /\ order' = EntryOrder("tailor")
               /\ tmpdir' = [exists |-> TRUE, files |-> {}]
               /\ pc' = "with"
    /\ UNCHANGED <<api_now, users, cookie, session, tailored_resumes, exvars, rdvars,
                   ccvars, bdvars, lgvars, written, tools, catalogue, crew, kovars,
                   outvars>>

\* Lines 212-238: an exception of the pipeline is the answer; else the
\* document is inserted into db.tailored_resumes_collection, the attribute
\* Database does not have.
TailorRespond ==
    /\ TailorPending
    /\ Terminated
    /\ resp' = IF pc = "raised"
               THEN [resp EXCEPT !.status = 500, !.detail = "Internal Server Error"]
               ELSE CollectionAccess(resp)
    /\ UNCHANGED <<api_now, users, cookie, session, tailored_resumes, exvars, rdvars,
                   plvars, ccvars, bdvars, lgvars>>

InitTailor == Init

NextTailor ==
    \/ TailorLogin \/ TailorRequest
    \/ PrepareFiles \/ BuildTools \/ BuildCrew
    \/ StartStage \/ FinishStage \/ FailStage \/ JoinFuture \/ KickoffReturn
    \/ ParseResume \/ RenderPdf \/ ReturnPdf
    \/ TailorRespond

SpecTailor == InitTailor /\ [][NextTailor]_vars

\* The /tailor request of an authenticated caller has been answered.
TailorAnswered ==
    resp.route = "POST /tailor" /\ resp.status # 0 /\ Caller(resp) # 0

\* C26: POST /tailor stores a document only after the pipeline has returned
\* a PDF: while the pipeline runs and when it fails the collection is
\* unchanged, and when it succeeds exactly one document was inserted, owned
\* by the caller and holding the returned file name and PDF.
C26_StoredOnlyAfterPipeline ==
    /\ TailorPending => tailored_resumes = {}
    /\ (TailorAnswered /\ pc = "raised") => tailored_resumes = {}
    /\ (TailorAnswered /\ pc = "returned")
          => /\ resp.status = 200
             /\ Cardinality(tailored_resumes) = 1
             /\ \A d \in tailored_resumes :
                   /\ d.user_id = Caller(resp)
                   /\ d.filename = result.filename

\* C26 for the failing pipeline: a stage failure, a parse failure and a
\* render failure are answered 500 and leave the collection unchanged, and
\* the collection is never touched before the pipeline has returned.
C26_FailureStoresNothing ==
    /\ TailorPending => (tailored_resumes = {} /\ ~resp.doc_access)
    /\ (TailorAnswered /\ pc = "raised")
          => /\ tailored_resumes = {}
             /\ resp.status = 500
             /\ ~resp.doc_access
    /\ resp.doc_access => (pc = "returned" /\ result.kind = "pdf")

\* C26 witness: the pipeline returned the PDF and its file name to the
\* endpoint of an authenticated caller, which went on to store them.
C26_Witness ==
    /\ TailorAnswered
    /\ pc = "returned"
    /\ result.kind = "pdf"
    /\ result.filename # <<>>
    /\ resp.doc_access

\* C26 witness: the request was answered after a stage failure.
C26_WitnessStageFailure == TailorAnswered /\ error = "StageError"

\* C26 witness: the request was answered after a parse failure.
C26_WitnessParseFailure == TailorAnswered /\ error = "ValidationError"

\* C26 witness: the request was answered after a render failure.
C26_WitnessRenderFailure == TailorAnswered /\ error = "RenderError"

====
